---- MODULE Spec2Model ----
(***************************************************************************)
(* State-machine model of the payment validation saga, the payment status  *)
(* reconciliation engine (payment-service) and the bounded worker pool     *)
(* (product-service) of BE-Microservice-GO.                                *)
(*                                                                         *)
(* The three concurrency domains share no state in the program, so each    *)
(* specification moves the variables of one domain and holds the others:   *)
(*   Spec        reconciliation handlers running concurrently              *)
(*   SeqSpec     the same handlers, one request at a time                  *)
(*   CreateSpec  the CreatePayment handler on an empty store               *)
(*   SagaSpec    validation saga coordinator                               *)
(*   PoolSpec    worker pool                                               *)
(*   SagaSeqSpec, SagaLiveSpec  the saga with its single consumer          *)
(*   MapSpec     one reconciliation over every gateway status string       *)
(*   GatewaySpec the gateway client's retry loops                          *)
(*   LifeSpec    CreatePayment followed by reconciliations                 *)
(*   ChargeSpec  CreatePayment calls charging a deduplicating gateway      *)
(*   CacheSpec   LifeSpec with the read handlers that fill the cache       *)
(*   FaultSpec   reconciliations with a failing redis and broker           *)
(*   ReplyLiveSpec  worker pool, reply channels of any capacity, fair      *)
(*   TypeSpec    worker pool in service, requests of any type              *)
(*   LockSpec    the saga with the acquisitions of vc.mu as steps          *)
(*   WaitSpec    CreatePayment with the loop of waitForPaymentData         *)
(*   BodySpec    SeqSpec with callbacks that carry any body                *)
(*   ReadSpec    Spec with a GetPayment / GetPaymentByOrderID call         *)
(*   SweepSpec   SagaSeqSpec with a clock of minutes                       *)
(***************************************************************************)
EXTENDS Integers, Sequences, FiniteSets, TLC

VARIABLES
    payments,   \* payment store: payment id -> row of table payments
    cache,      \* redis: key -> cached payment response or payment list
    published,  \* broker: payment id -> event type -> number of Publish* calls
    proc,       \* one record per in-flight reconciliation handler
    creator,    \* the CreatePayment handler in flight
    runs,       \* number of reconciliation requests received so far
    lastRun     \* payment id -> summary of the last completed reconciliation

VARIABLES
    pendingValidations, \* vc.pendingValidations: payment id -> *PendingValidation
    consumer,           \* the deliveries in processMessage, one per goroutine
    sagaNow,            \* time.Now() of the saga process, in minutes
    nextSweep,          \* when the cleanup ticker fires next
    registrations,      \* history: one entry per AddPendingValidation call
    delivered,          \* number of replies delivered so far
    lastDelivery,       \* how the processMessage that returned last ended
    mu                  \* vc.mu: the goroutine that holds it, or "free"

VARIABLES
    requestCh,   \* wp.requestCh: the buffered channel's content
    chClosed,    \* close(wp.requestCh) has happened
    poolCtxDone, \* wp.cancel() has happened
    activeJobs,  \* wp.activeJobs
    worker,      \* one record per worker goroutine
    reqs,        \* one record per Request and its caller
    stopPc,      \* position of wp.Stop()
    handlers     \* the request types whose handler field of wp is not nil

VARIABLES
    http,        \* the gateway client's call in progress: its HTTP attempts
    wallClock,   \* what time.Now().UnixNano() returns at present
    calls,       \* CreatePayment calls: order id and the charge requests sent
    ledger       \* the gateway: order id -> requests received, charges made

VARIABLES
    waiter       \* the waitForPaymentData call of CreatePayment

VARIABLES
    reader       \* the GetPayment / GetPaymentByOrderID handler in flight

reconVars == <<payments, cache, published, proc, creator, runs, lastRun>>
sagaVars ==
    <<pendingValidations, consumer, sagaNow, nextSweep, registrations, delivered,
      lastDelivery, mu>>
poolVars ==
    <<requestCh, chClosed, poolCtxDone, activeJobs, worker, reqs, stopPc, handlers>>
gatewayVars == <<http, wallClock, calls, ledger>>
waitVars == <<waiter>>
readVars == <<reader>>
vars == <<reconVars, sagaVars, poolVars, gatewayVars, waitVars, readVars>>

-----------------------------------------------------------------------------
(* Bounds of the model *)

\* Reconciliation requests received in a run of SeqSpec, of Spec, of MapSpec,
\* of LifeSpec and CacheSpec, and of FaultSpec.
MaxRuns == 3
MaxConcurrentRuns == 2
MaxMapRuns == 1
MaxLifeRuns == 1
MaxFaultRuns == 1
MaxBodyRuns == 1
MaxReadRuns == 2

-----------------------------------------------------------------------------
(* models.PaymentStatus and the gateway's vocabulary *)

PaymentStatusPending == "PENDING"
PaymentStatusSuccess == "SUCCESS"
PaymentStatusFailed == "FAILED"
PaymentStatusCancelled == "CANCELLED"
PaymentStatusExpired == "EXPIRED"

PaymentStatuses ==
    {PaymentStatusPending, PaymentStatusSuccess, PaymentStatusFailed,
     PaymentStatusCancelled, PaymentStatusExpired}

TerminalStatuses == PaymentStatuses \ {PaymentStatusPending}

\* transaction_status strings the gateway's status API may report; "refund",
\* "SETTLEMENT" and "" are strings the mapper has no case for.
GatewayStatuses ==
    {"pending", "settlement", "capture", "deny", "cancel", "expire", "refund",
     "SETTLEMENT", ""}

\* The statuses the modelled gateway reports for an order: pending, a success,
\* a failure, and one the mapper has no case for.
ReportedStatuses == {"pending", "settlement", "expire", "refund"}

\* Variant of the mapper whose default is FAILED.
MapUnknownToFailed(midtransStatus) ==
    CASE midtransStatus = "pending" -> PaymentStatusPending
      [] midtransStatus \in {"settlement", "capture"} -> PaymentStatusSuccess
      [] midtransStatus = "cancel" -> PaymentStatusCancelled
      [] midtransStatus = "expire" -> PaymentStatusExpired
      [] OTHER -> PaymentStatusFailed

\* MidtransService.MapMidtransStatusToPaymentStatus: the default of the switch
\* is PENDING.
MapMidtransStatusToPaymentStatus(midtransStatus) ==
    CASE midtransStatus = "pending" -> PaymentStatusPending
      [] midtransStatus \in {"settlement", "capture"} -> PaymentStatusSuccess
      [] midtransStatus = "deny" -> PaymentStatusFailed
      [] midtransStatus = "cancel" -> PaymentStatusCancelled
      [] midtransStatus = "expire" -> PaymentStatusExpired
      [] OTHER -> PaymentStatusPending

-----------------------------------------------------------------------------
(* Time.  time.Now() yields some instant of Times; NoTime is the NULL of a  *)
(* *time.Time column.  A time string of the gateway is a pair <<layout, t>>,*)
(* the empty string being <<"", NoTime>>; the gateway's instant is 3, which *)
(* no local clock reading equals.                                          *)

NoTime == 0
Times == {1, 2}

TimeLayouts == {"RFC3339", "2006-01-02 15:04:05", "2006-01-02T15:04:05"}
GatewayTimeStrings ==
    {<<"", NoTime>>} \cup ((TimeLayouts \cup {"unparseable"}) \X {3})

\* The loop over timeFormats with time.Parse: the instant when one of the three
\* layouts parses the string, NoTime when none does.
ParseGatewayTime(s) == IF s[1] \in TimeLayouts THEN s[2] ELSE NoTime

-----------------------------------------------------------------------------
(* Payment store *)

PaymentIDs == {"pay1"}
OrderIDs == {"Order_1"}
ProductIDs == {"prod1"}
NilUUID == "nil"

NoPayment ==
    [exists |-> FALSE, OrderID |-> "", UserID |-> NilUUID, ProductID |-> NilUUID,
     Amount |-> 0, AdminFee |-> 0, TotalAmount |-> 0,
     Status |-> PaymentStatusPending, PaidAt |-> NoTime, TransactionStatus |-> "none"]

\* Variant of the lookup that answers with a row whatever the order id.
GetByOrderIDAnyRow(orderID) ==
    LET id == CHOOSE i \in PaymentIDs : TRUE
    IN  [id |-> id, row |-> [payments[id] EXCEPT !.exists = TRUE]]

\* PaymentRepository.GetByOrderID: the row with that order id, NoPayment when
\* there is none ("payment not found").
GetByOrderID(orderID) ==
    IF \E id \in PaymentIDs : payments[id].exists /\ payments[id].OrderID = orderID
    THEN LET id == CHOOSE i \in PaymentIDs :
                       payments[i].exists /\ payments[i].OrderID = orderID
         IN  [id |-> id, row |-> payments[id]]
    ELSE [id |-> NilUUID, row |-> NoPayment]

\* Variant of UpdateStatus that forgets the paid_at stamp of a SUCCESS.
UpdateStatusNoPaidAt(row, status, now) == [row EXCEPT !.Status = status]

\* PaymentRepository.UpdateStatus: the row after UPDATE ... SET status (and
\* paid_at = now for SUCCESS) WHERE id = ?.  The update carries no condition on
\* the stored status.
UpdateStatus(row, status, now) ==
    IF status = PaymentStatusSuccess
    THEN [row EXCEPT !.Status = status, !.PaidAt = now]
    ELSE [row EXCEPT !.Status = status]

\* Variant of UpdateMidtransData that writes paid_at also when midtransData
\* has none.
UpdateMidtransDataClearsPaidAt(row, midtransData) ==
    [row EXCEPT !.TransactionStatus = midtransData.transaction_status,
                !.PaidAt = midtransData.paid_at]

\* PaymentRepository.UpdateMidtransData: only the keys present in midtransData
\* are written.  midtransData is modelled by the fields the handlers may set.
UpdateMidtransData(row, midtransData) ==
    [row EXCEPT !.TransactionStatus = midtransData.transaction_status,
                !.PaidAt = IF midtransData.paid_at # NoTime
                           THEN midtransData.paid_at ELSE @]

-----------------------------------------------------------------------------
(* Callback signature.  sha512.Sum512 is modelled as an injective function  *)
(* of the signed string, and fmt.Sprintf("%x") as its lower-case hex form.  *)

ServerKey == "SB-Mid-server-key"

Sha512Hex(signatureString) == <<"sha512-hex", signatureString>>

\* Variant that leaves the server key out of the signed string.
VerifySignatureNoKey(orderID, statusCode, grossAmount, signatureKey) ==
    signatureKey = Sha512Hex(orderID \o statusCode \o grossAmount)

\* MidtransService.VerifySignature
VerifySignature(orderID, statusCode, grossAmount, signatureKey) ==
    LET signatureString == orderID \o statusCode \o grossAmount \o ServerKey
        expectedSignature == Sha512Hex(signatureString)
    IN  signatureKey = expectedSignature

\* Signatures a callback may carry for given fields: the hash of the fields
\* with the server key, the same without the key, an upper-case rendering, and
\* a hash made for another gross amount.
SignatureCandidates(o, c, g) ==
    { Sha512Hex(o \o c \o g \o ServerKey),
      Sha512Hex(o \o c \o g),
      <<"SHA512-HEX", o \o c \o g \o ServerKey>>,
      Sha512Hex(o \o c \o "1.00" \o ServerKey) }

\* The fields of models.MidtransCallbackRequest that the signature does not
\* cover and that say what happened to the transaction; all four are optional
\* in the JSON body.
NoBody == [TransactionStatus |-> "", FraudStatus |-> "", PaidAt |-> "",
           ExpiryTime |-> ""]

\* Bodies a callback may carry for one order.
CallbackBodies ==
    [TransactionStatus : {"settlement", "expire"}, FraudStatus : {"accept", "deny"},
     PaidAt : {"", "2025-01-01 10:00:00"}, ExpiryTime : {"", "2025-01-02 10:00:00"}]

\* models.MidtransCallbackRequest with the given body.
CallbackRequestsWith(bodies) ==
    UNION { { [OrderID |-> f[1], StatusCode |-> f[2], GrossAmount |-> f[3],
               SignatureKey |-> k,
               TransactionStatus |-> b.TransactionStatus,
               FraudStatus |-> b.FraudStatus, PaidAt |-> b.PaidAt,
               ExpiryTime |-> b.ExpiryTime] :
              k \in SignatureCandidates(f[1], f[2], f[3]), b \in bodies } :
            f \in {"Order_1", "Order_404"} \X {"200"} \X {"102500.00"} }

\* models.MidtransCallbackRequest, the body left out.
CallbackRequests == CallbackRequestsWith({NoBody})

NoRequest ==
    [OrderID |-> "", StatusCode |-> "", GrossAmount |-> "", SignatureKey |-> <<"", "">>,
     TransactionStatus |-> "", FraudStatus |-> "", PaidAt |-> "", ExpiryTime |-> ""]

-----------------------------------------------------------------------------
(* Events and cache *)

EventTypes ==
    {"payment.created", "payment.status.updated", "payment.success",
     "payment.failed", "product.stock.reduced"}

NoEvents == [t \in EventTypes |-> 0]

\* Variant of the publish block without the comparison of the statuses.
LifecycleEventsUnconditional(payment, oldStatus, newStatus) ==
    [t \in EventTypes |->
        CASE t = "payment.status.updated" -> 1
          [] t = "payment.success" ->
               IF newStatus = PaymentStatusSuccess THEN 1 ELSE 0
          [] t = "product.stock.reduced" ->
               IF newStatus = PaymentStatusSuccess /\ payment.ProductID # NilUUID
               THEN 1 ELSE 0
          [] t = "payment.failed" ->
               IF newStatus \in {PaymentStatusFailed, PaymentStatusCancelled,
                                 PaymentStatusExpired}
               THEN 1 ELSE 0
          [] OTHER -> 0]

\* Variant of the publish block that publishes payment.failed for every new
\* status.
LifecycleEventsFailedOnAnyChange(payment, oldStatus, newStatus) ==
    [t \in EventTypes |->
        IF newStatus = oldStatus THEN 0
        ELSE CASE t = "payment.status.updated" -> 1
               [] t = "payment.success" ->
                    IF newStatus = PaymentStatusSuccess THEN 1 ELSE 0
               [] t = "product.stock.reduced" ->
                    IF newStatus = PaymentStatusSuccess /\ payment.ProductID # NilUUID
                    THEN 1 ELSE 0
               [] t = "payment.failed" -> 1
               [] OTHER -> 0]

\* The Publish* calls of the "Publish events based on status change" block of
\* MidtransCallback and CheckPaymentStatus, as the number of calls per type.
LifecycleEvents(payment, oldStatus, newStatus) ==
    [t \in EventTypes |->
        IF newStatus = oldStatus THEN 0
        ELSE CASE t = "payment.status.updated" -> 1
               [] t = "payment.success" ->
                    IF newStatus = PaymentStatusSuccess THEN 1 ELSE 0
               [] t = "product.stock.reduced" ->
                    IF newStatus = PaymentStatusSuccess /\ payment.ProductID # NilUUID
                    THEN 1 ELSE 0
               [] t = "payment.failed" ->
                    IF newStatus \in {PaymentStatusFailed, PaymentStatusCancelled,
                                      PaymentStatusExpired}
                    THEN 1 ELSE 0
               [] OTHER -> 0]

AddEvents(counts, more) == [t \in EventTypes |-> counts[t] + more[t]]

\* The Data of the event PublishPaymentStatusUpdated builds, as far as the
\* statuses go.
NoStatusUpdated == [OldStatus |-> "", NewStatus |-> ""]

PaymentStatusUpdatedEvent(oldStatus, newStatus) ==
    [OldStatus |-> oldStatus, NewStatus |-> newStatus]

\* The redis keys.  A cached value is the status of the cached payment
\* response, or the statuses of a cached payment list; CacheMiss is redis.Nil.
CacheMiss == "miss"

UserIDs == {"user1"}
Pages == {"1"}
Limits == {"10", "20"}

\* fmt.Sprintf("payment:%s", paymentID)
PaymentKey(paymentID) == "payment:" \o paymentID

\* fmt.Sprintf("payment:order:%s", orderID)
PaymentByOrderIDKey(orderID) == "payment:order:" \o orderID

\* fmt.Sprintf("user:payments:%s", userID) of SetUserPayments, GetUserPayments
\* and DeleteUserPayments, and of InvalidatePaymentCache.
UserPaymentsKey(userID) == "user:payments:" \o userID

\* The handler GetUserPayments: cacheKey := fmt.Sprintf("%s_%d_%d", userID,
\* page, limit), which it passes to the cache service as the user id.
ListCacheKey(userID, page, limit) == userID \o "_" \o page \o "_" \o limit

CacheKeys ==
    {PaymentKey(id) : id \in PaymentIDs}
    \cup {PaymentByOrderIDKey(o) : o \in OrderIDs}
    \cup {UserPaymentsKey(u) : u \in UserIDs}
    \cup {UserPaymentsKey(ListCacheKey(u, pg, l)) : u \in UserIDs, pg \in Pages, l \in Limits}

NoCache == [k \in CacheKeys |-> CacheMiss]

\* cs.client.Set(key, ...)
CacheSetKey(c, key, value) == [c EXCEPT ![key] = value]

\* cs.client.Del(key): an absent key is no error.
CacheDel(c, key) == IF key \in DOMAIN c THEN [c EXCEPT ![key] = CacheMiss] ELSE c

\* CacheService.InvalidatePaymentCache: Del of the three keys, one after the
\* other; a Del that fails (key in failing) is logged and the loop goes on.
InvalidatePaymentCache(c, failing, paymentID, orderID, userID) ==
    LET k1 == PaymentKey(paymentID)
        k2 == PaymentByOrderIDKey(orderID)
        k3 == UserPaymentsKey(userID)
        c1 == IF k1 \in failing THEN c ELSE CacheDel(c, k1)
        c2 == IF k2 \in failing THEN c1 ELSE CacheDel(c1, k2)
    IN  IF k3 \in failing THEN c2 ELSE CacheDel(c2, k3)

-----------------------------------------------------------------------------
(* Reconciliation handlers: MidtransCallback (webhook) and                  *)
(* CheckPaymentStatus (manual poll).  Each store, cache or broker access is *)
(* one step, so that concurrent handlers interleave between them.           *)

Reconcilers == {"h1", "h2"}

\* The handler goroutines are interchangeable: a request that arrives when
\* none is in flight is taken by h1.
Free(w) == proc[w].pc = "idle" /\ (w = "h2" => proc["h1"].pc # "idle")

NoStatusResp == [TransactionStatus |-> "none", PaidAtSet |-> FALSE, PaidAt |-> NoTime]

\* services.MidtransStatusResponse as the handlers read it: the transaction
\* status, whether paid_at is a non-empty string, and what the layouts parse
\* it to.
StatusResponsesOf(statuses) ==
    { [TransactionStatus |-> ts, PaidAtSet |-> s[1] # "", PaidAt |-> ParseGatewayTime(s)] :
        ts \in statuses, s \in GatewayTimeStrings }

StatusResponses == StatusResponsesOf(ReportedStatuses)

IdleProc ==
    [pc |-> "idle", kind |-> "none", req |-> NoRequest, id |-> NilUUID,
     payment |-> NoPayment, statusResp |-> NoStatusResp,
     updated |-> FALSE, updatedStatus |-> PaymentStatusPending,
     midtransData |-> "not called", statusUpdated |-> NoStatusUpdated,
     delErrors |-> {}, publishErrors |-> {},
     resp |-> 0, pub |-> NoEvents]

\* The payment struct a handler holds after loading the row: the fields it
\* goes on to read.  (It never reads payment.TransactionStatus.)
Loaded(row) == [row EXCEPT !.TransactionStatus = "none"]

\* Variant of newStatus that maps the status the callback's body names.
newStatusOfBody(p) ==
    MapMidtransStatusToPaymentStatus(
        IF p.kind = "callback" THEN p.req.TransactionStatus
        ELSE p.statusResp.TransactionStatus)

\* The handler's locals oldStatus := payment.Status and
\* newStatus := MapMidtransStatusToPaymentStatus(statusResp.TransactionStatus).
oldStatusOf(p) == p.payment.Status
newStatusOf(p) == MapMidtransStatusToPaymentStatus(p.statusResp.TransactionStatus)

NoRun == [valid |-> FALSE, TransactionStatus |-> "none", pub |-> NoEvents]

\* Variant of the response that answers 200 whatever the handler found.
RespondAlwaysOK(p, code) == [p EXCEPT !.pc = "respond", !.resp = 200]

\* c.JSON(code, ...) followed by return: the handler is left with its response
\* to write.
Respond(p, code) == [p EXCEPT !.pc = "respond", !.resp = code]

\* MidtransCallback up to the load of the payment: bind, VerifySignature,
\* paymentRepo.GetByOrderID.
BeginCallback(w, req) ==
    /\ Free(w)
    /\ runs' = runs + 1
    /\ LET p0 == [IdleProc EXCEPT !.kind = "callback", !.req = req]
           found == GetByOrderID(req.OrderID)
       IN  proc' = [proc EXCEPT ![w] =
             IF ~VerifySignature(req.OrderID, req.StatusCode, req.GrossAmount,
                                 req.SignatureKey)
             THEN Respond(p0, 400)
             ELSE IF ~found.row.exists
             THEN Respond(p0, 404)
             ELSE [p0 EXCEPT !.pc = "fetch", !.id = found.id,
                             !.payment = Loaded(found.row)]]
    /\ UNCHANGED <<payments, cache, published, creator, lastRun>>

\* CheckPaymentStatus up to the load of the payment: paymentRepo.GetByID.
BeginCheck(w, id) ==
    /\ Free(w)
    /\ runs' = runs + 1
    /\ LET p0 == [IdleProc EXCEPT !.kind = "check", !.req.OrderID = id]
       IN  proc' = [proc EXCEPT ![w] =
             IF id \notin PaymentIDs \/ ~payments[id].exists
             THEN Respond(p0, 404)
             ELSE [p0 EXCEPT !.pc = "fetch", !.id = id,
                             !.payment = Loaded(payments[id])]]
    /\ UNCHANGED <<payments, cache, published, creator, lastRun>>

\* The number of GetPaymentStatus calls the handler makes for the given call
\* results, and whether it ends with a status: MidtransCallback tries up to
\* maxRetries = 3 times, CheckPaymentStatus once.
CallbackMaxRetries == 3

StatusCalls(kind, results) ==
    LET n == IF kind = "callback" THEN CallbackMaxRetries ELSE 1
        oks == {i \in 1..n : results[i] = "ok"}
    IN  IF oks = {} THEN [ok |-> FALSE, calls |-> n]
        ELSE [ok |-> TRUE, calls |-> CHOOSE i \in oks : \A j \in oks : i <= j]

\* GetPaymentStatus (with the callback's retry loop) and the mapping of the
\* reported status, for a gateway that answers with one of responses.
FetchStatusFrom(w, responses) ==
    /\ proc[w].pc = "fetch"
    /\ \E results \in [1..CallbackMaxRetries -> {"ok", "error"}], sr \in responses :
         LET got == StatusCalls(proc[w].kind, results)
             p2 == [proc[w] EXCEPT !.statusResp = sr]
         IN  proc' = [proc EXCEPT ![w] =
               IF ~got.ok THEN Respond(proc[w], 500)
               ELSE [p2 EXCEPT !.pc = IF proc[w].kind = "check"
                                          /\ newStatusOf(p2) = oldStatusOf(p2)
                                       THEN "reread" ELSE "update"]]
    /\ UNCHANGED <<payments, cache, published, creator, runs, lastRun>>

FetchStatus(w) == FetchStatusFrom(w, StatusResponses)

\* paymentRepo.UpdateStatus(payment.ID, newStatus); a store error ends the
\* handler with 500.
UpdateStatusStep(w) ==
    /\ proc[w].pc = "update"
    /\ \E ok \in BOOLEAN, now \in Times :
         IF ok
         THEN /\ payments' = [payments EXCEPT ![proc[w].id] =
                                 UpdateStatus(@, newStatusOf(proc[w]), now)]
              /\ proc' = [proc EXCEPT ![w].pc = "midtrans", ![w].updated = TRUE]
         ELSE /\ payments' = payments
              /\ proc' = [proc EXCEPT ![w] = Respond(@, 500)]
    /\ UNCHANGED <<cache, published, creator, runs, lastRun>>

\* The midtransData map built after the status update: paid_at is the parsed
\* gateway time when the gateway gave one, the local time when the payment
\* became SUCCESS and the loaded payment had none, and absent otherwise.
BuildMidtransData(payment, statusResp, newStatus, now) ==
    [transaction_status |-> statusResp.TransactionStatus,
     paid_at |-> IF statusResp.PaidAtSet THEN statusResp.PaidAt
                 ELSE IF newStatus = PaymentStatusSuccess /\ payment.PaidAt = NoTime
                      THEN now ELSE NoTime]

\* paymentRepo.UpdateMidtransData(payment.ID, midtransData); its error is
\* logged (callback) or dropped (check) and the handler goes on.
UpdateMidtransDataStep(w) ==
    /\ proc[w].pc = "midtrans"
    /\ \E ok \in BOOLEAN, now \in Times :
         /\ payments' = IF ok
                     THEN [payments EXCEPT ![proc[w].id] =
                             UpdateMidtransData(@, BuildMidtransData(proc[w].payment,
                                 proc[w].statusResp, newStatusOf(proc[w]), now))]
                     ELSE payments
         /\ proc' = [proc EXCEPT ![w].pc = "publish", ![w].midtransData = IF ok THEN "saved" ELSE "error"]
    /\ UNCHANGED <<cache, published, creator, runs, lastRun>>

\* Variant of the end of the publish block that answers 500 when a publish
\* returned an error.
AfterPublishFailsOnError(p, publishErrors) ==
    IF publishErrors # {} THEN Respond(p, 500)
    ELSE IF p.kind = "callback" THEN Respond(p, 200)
    ELSE [p EXCEPT !.pc = "reread"]

\* What follows the publish block: the Publish* calls are made as statements,
\* their errors dropped; MidtransCallback answers 200 and CheckPaymentStatus
\* goes on to re-read the payment.
AfterPublish(p, publishErrors) ==
    IF p.kind = "callback" THEN Respond(p, 200) ELSE [p EXCEPT !.pc = "reread"]

\* cacheSvc.InvalidatePaymentCache and the Publish* calls of the handler, with
\* the redis keys whose Del fails and the event types for which
\* channel.Publish returns an error.
InvalidateAndPublishWith(w, delErrors, publishErrors) ==
    /\ proc[w].pc = "publish"
    /\ LET id == proc[w].id
           payment == proc[w].payment
           oldStatus == oldStatusOf(proc[w])
           newStatus == newStatusOf(proc[w])
           evs == LifecycleEvents(payment, oldStatus, newStatus)
           failed == {t \in publishErrors : evs[t] > 0}
           p1 == [proc[w] EXCEPT
                    !.pub = evs,
                    !.statusUpdated =
                        IF evs["payment.status.updated"] > 0
                        THEN PaymentStatusUpdatedEvent(oldStatus, newStatus)
                        ELSE NoStatusUpdated,
                    !.delErrors = delErrors,
                    !.publishErrors = failed]
       IN  /\ cache' = InvalidatePaymentCache(cache, delErrors, id, payment.OrderID,
                                              payment.UserID)
           /\ published' = [published EXCEPT ![id] = AddEvents(@, evs)]
           /\ proc' = [proc EXCEPT ![w] = AfterPublish(p1, failed)]
    /\ UNCHANGED <<payments, creator, runs, lastRun>>

\* The same with redis and the broker in working order.
InvalidateAndPublish(w) == InvalidateAndPublishWith(w, {}, {})

\* CheckPaymentStatus: "Get updated payment data", paymentRepo.GetByID again.
Reread(w) ==
    /\ proc[w].pc = "reread"
    /\ \E ok \in BOOLEAN :
         proc' = [proc EXCEPT ![w] =
             IF ok THEN [@ EXCEPT !.updatedStatus = payments[proc[w].id].Status,
                                  !.pc = "cacheset"]
             ELSE Respond(@, 500)]
    /\ UNCHANGED <<payments, cache, published, creator, runs, lastRun>>

\* CheckPaymentStatus: cacheSvc.SetPayment of the re-read payment, then 200.
CacheSet(w) ==
    /\ proc[w].pc = "cacheset"
    /\ cache' = CacheSetKey(cache, PaymentKey(proc[w].id), proc[w].updatedStatus)
    /\ proc' = [proc EXCEPT ![w] = Respond(@, 200)]
    /\ UNCHANGED <<payments, published, creator, runs, lastRun>>

\* The handler returns.  A handler that got a status from the gateway is
\* recorded as the payment's last completed reconciliation.
Return(w) ==
    /\ proc[w].pc = "respond"
    /\ proc' = [proc EXCEPT ![w] = IdleProc]
    /\ IF proc[w].statusResp # NoStatusResp
       THEN lastRun' = [lastRun EXCEPT ![proc[w].id] =
                 [valid |-> TRUE,
                  TransactionStatus |-> proc[w].statusResp.TransactionStatus,
                  pub |-> proc[w].pub]]
       ELSE UNCHANGED lastRun
    /\ UNCHANGED <<payments, cache, published, creator, runs>>

-----------------------------------------------------------------------------
(* Gateway client: MidtransService.charge, one HTTP attempt per element of  *)
(* the outcome sequence.                                                     *)

ChargeMaxRetries == 3
StatusMaxRetries == 3

\* What one HTTP attempt may bring: a failure of httpClient.Do or of reading
\* the body, status 200, status 200 with status_code 400, 401, 500 or 505 in
\* the body, a status of 500 or more, 429, and any other status.
HttpOutcomes == {"conn_error", "200", "200_body_error", "5xx", "429", "4xx"}

GatewayCalls == {"charge", "GetPaymentStatus"}

maxRetriesOf(fn) == IF fn = "charge" THEN ChargeMaxRetries ELSE StatusMaxRetries

\* Variant of the loop body that also retries after the other statuses.
AttemptRetriesAnyError(fn, o, attempt) ==
    CASE o = "200" -> "return ok"
      [] o = "200_body_error" -> IF fn = "charge" THEN "return error" ELSE "return ok"
      [] OTHER -> IF attempt = maxRetriesOf(fn) THEN "return error" ELSE "continue"

\* One pass of the loop "for attempt := 0; attempt <= maxRetries; attempt++"
\* of charge and of GetPaymentStatus: what the pass with outcome o ends in.
\* Only charge looks at the status_code of a 200 body.
Attempt(fn, o, attempt) ==
    CASE o = "200" -> "return ok"
      [] o = "200_body_error" -> IF fn = "charge" THEN "return error" ELSE "return ok"
      [] o \in {"conn_error", "5xx", "429"} ->
            IF attempt = maxRetriesOf(fn) THEN "return error" ELSE "continue"
      [] OTHER -> "return error"

RECURSIVE ChargeFrom(_, _)
ChargeFrom(outcomes, attempt) ==
    LET a == Attempt("charge", outcomes[attempt + 1], attempt)
    IN  CASE a = "return ok" -> [ok |-> TRUE, attempts |-> attempt + 1]
          [] a = "return error" -> [ok |-> FALSE, attempts |-> attempt + 1]
          [] OTHER -> ChargeFrom(outcomes, attempt + 1)

\* MidtransService.charge: the loop "for attempt := 0; attempt <= maxRetries".
charge(outcomes) == ChargeFrom(outcomes, 0)

\* The gateway client, attempt by attempt.  http holds the function called,
\* the outcomes of the attempts made so far, and how the call returned.
IdleHttp == [pc |-> "idle", fn |-> "none", outcomes |-> <<>>, result |-> "none"]

\* charge or GetPaymentStatus is called.
GatewayCall(fn) ==
    /\ http.pc \in {"idle", "returned"}
    /\ http' = [IdleHttp EXCEPT !.pc = "in loop", !.fn = fn]
    /\ UNCHANGED <<reconVars, sagaVars, poolVars, waitVars, readVars, wallClock, calls, ledger>>

\* One pass of the retry loop: the attempt is made and either the function
\* returns or, after the backoff sleep, the loop goes round.
GatewayAttempt(o) ==
    /\ http.pc = "in loop"
    /\ LET attempt == Len(http.outcomes)
           a == Attempt(http.fn, o, attempt)
       IN  http' = [http EXCEPT !.outcomes = Append(@, o),
                                !.pc = IF a = "continue" THEN "in loop" ELSE "returned",
                                !.result = IF a = "continue" THEN "none" ELSE a]
    /\ UNCHANGED <<reconVars, sagaVars, poolVars, waitVars, readVars, wallClock, calls, ledger>>

-----------------------------------------------------------------------------
(* CreatePayment calls and their charge requests.  The order id is made    *)
(* from the wall clock; the request body is marshalled once, before the    *)
(* retry loop of charge.  The gateway keeps one charge per order id.       *)

\* Bound: readings of the wall clock.
MaxClock == 2

ClockReadings == 1..MaxClock
PaymentCalls == {"call1", "call2"}

\* fmt.Sprintf("Order_%d", time.Now().UnixNano())
OrderIDAt(t) == <<"Order_", t>>

NoCall == [pc |-> "idle", orderID |-> <<"", 0>>, carried |-> {}, attempts |-> 0]
NoLedger == [requests |-> 0, charges |-> 0]

\* The wall clock moves on.  Nothing makes it move between two calls.
ClockAdvance ==
    /\ wallClock < MaxClock
    /\ wallClock' = wallClock + 1
    /\ UNCHANGED <<reconVars, sagaVars, poolVars, waitVars, readVars, http, calls, ledger>>

\* CreatePayment: orderID := fmt.Sprintf("Order_%d", time.Now().UnixNano()).
\* The calls are interchangeable: call1 is the one that begins first.
BeginPayment(c) ==
    /\ calls[c].pc = "idle"
    /\ c = "call2" => calls["call1"].pc # "idle"
    /\ calls' = [calls EXCEPT ![c] =
                    [NoCall EXCEPT !.pc = "charging", !.orderID = OrderIDAt(wallClock)]]
    /\ UNCHANGED <<reconVars, sagaVars, poolVars, waitVars, readVars, http, wallClock, ledger>>

\* One pass of the loop of charge for the call's request.  A request that
\* reaches the gateway is counted, and charged unless the order id has been
\* charged before; a request that failed at connection level may or may not
\* have reached it.
ChargeAttempt(c, o, reached) ==
    /\ calls[c].pc = "charging"
    /\ o # "conn_error" => reached
    /\ LET id == calls[c].orderID
           a == Attempt("charge", o, calls[c].attempts)
       IN  /\ calls' = [calls EXCEPT ![c].carried = @ \cup {id},
                                      ![c].attempts = @ + 1,
                                      ![c].pc = IF a = "continue" THEN "charging" ELSE a]
           /\ ledger' = IF reached
                         THEN [ledger EXCEPT ![id].requests = @ + 1, ![id].charges = 1]
                         ELSE ledger
    /\ UNCHANGED <<reconVars, sagaVars, poolVars, waitVars, readVars, http, wallClock>>

GatewayInit ==
    /\ http = IdleHttp
    /\ wallClock = 1
    /\ calls = [c \in PaymentCalls |-> NoCall]
    /\ ledger = [id \in {OrderIDAt(t) : t \in ClockReadings} |-> NoLedger]

-----------------------------------------------------------------------------
(* CreatePayment handler *)

Amounts == {100000, 50000}
AdminFees == {0, 2500}

\* The fields of MidtransChargeRequest that carry money: the gross amount and
\* the prices of the item lines (the admin fee line is added when positive).
NoChargeRequest == [OrderID |-> "", GrossAmount |-> 0, Prices |-> <<>>]

\* MidtransService.CreatePayment, "Prepare charge request".
ChargeRequest(payment) ==
    [OrderID |-> payment.OrderID,
     GrossAmount |-> payment.TotalAmount,
     Prices |-> IF payment.AdminFee > 0
                THEN <<payment.Amount, payment.AdminFee>>
                ELSE <<payment.Amount>>]

\* Variant of the total that leaves the fee out.
TotalAmountWithoutFee(amount, fee) == amount

\* totalAmount := req.Amount + req.AdminFee
TotalAmountOf(amount, fee) == amount + fee

\* What getProductFromService answered: found is false when it returned an
\* error.
NoProduct == [found |-> FALSE, ID |-> NilUUID, IsActive |-> FALSE, Stock |-> 0]

IdleCreator ==
    [pc |-> "idle", started |-> FALSE, charge |-> "none", id |-> NilUUID,
     product |-> NoProduct,
     payment |-> NoPayment, chargeReq |-> NoChargeRequest,
     midtransResp |-> NoStatusResp,
     updatedPayment |-> NoPayment, resp |-> 0]

\* Variant of the branch after the charge that goes on to persist whatever the
\* gateway answered.
AfterChargeAlwaysPersist(c, result, code) ==
    [c EXCEPT !.charge = IF result.ok THEN "ok" ELSE "failed", !.pc = "persist"]

\* "if err != nil { ... return }" after midtransSvc.CreatePayment: only a
\* successful charge goes on to paymentRepo.Create.  A failed one is answered
\* with code 503 or 400, by the text of the error.
AfterCharge(c, result, code) ==
    IF result.ok
    THEN [c EXCEPT !.charge = "ok", !.pc = "persist"]
    ELSE [c EXCEPT !.charge = "failed", !.pc = "respond", !.resp = code]

\* Variant of the product checks that does not look at the stock.
ProductUnavailableWhateverStock(product) == ~product.found \/ ~product.IsActive

\* The checks after getProductFromService: the lookup failed, "if
\* !product.IsActive", "if product.Stock <= 0"; each answers 400.
ProductUnavailable(product) ==
    ~product.found \/ ~product.IsActive \/ product.Stock <= 0

\* CreatePayment up to the payment struct: total amount, fresh order id and
\* payment id, the user and product lookups, the active / stock checks.
CreateBegin(amount, fee, userOK, product) ==
    /\ creator.pc = "idle"
    /\ ~creator.started
    /\ \E id \in PaymentIDs, orderID \in OrderIDs, userID \in UserIDs :
         /\ ~payments[id].exists
         /\ creator' =
              IF ~userOK
              THEN [creator EXCEPT !.started = TRUE, !.pc = "respond", !.resp = 500]
              ELSE IF ProductUnavailable(product)
              THEN [creator EXCEPT !.started = TRUE, !.product = product,
                                   !.pc = "respond", !.resp = 400]
              ELSE [creator EXCEPT !.started = TRUE, !.product = product,
                      !.pc = "charge", !.id = id,
                      !.payment = [NoPayment EXCEPT !.OrderID = orderID,
                                      !.UserID = userID,
                                      !.ProductID = product.ID,
                                      !.Amount = amount, !.AdminFee = fee,
                                      !.TotalAmount = TotalAmountOf(amount, fee),
                                      !.Status = PaymentStatusPending]]
    /\ UNCHANGED <<payments, cache, published, proc, runs, lastRun>>

\* midtransSvc.CreatePayment: the charge call with its retries.
CreateCharge ==
    /\ creator.pc = "charge"
    /\ \E outcomes \in [1..(ChargeMaxRetries + 1) -> HttpOutcomes],
          ts \in GatewayTimeStrings, code \in {503, 400} :
         LET result == charge(outcomes)
             c0 == [creator EXCEPT !.chargeReq = ChargeRequest(creator.payment)]
             c1 == AfterCharge(c0, result, code)
         IN  creator' =
               IF result.ok
               THEN [c1 EXCEPT !.midtransResp =
                        [TransactionStatus |-> "pending", PaidAtSet |-> ts[1] # "",
                         PaidAt |-> ParseGatewayTime(ts)]]
               ELSE c1
    /\ UNCHANGED <<payments, cache, published, proc, runs, lastRun>>

\* paymentRepo.Create(payment); a store error ends the handler with 500.
CreatePersist ==
    /\ creator.pc = "persist"
    /\ \E ok \in BOOLEAN :
         IF ok
         THEN /\ payments' = [payments EXCEPT ![creator.id] =
                                 [creator.payment EXCEPT !.exists = TRUE]]
              /\ creator' = [creator EXCEPT !.pc = "midtrans"]
         ELSE /\ payments' = payments
              /\ creator' = [creator EXCEPT !.pc = "respond", !.resp = 500]
    /\ UNCHANGED <<cache, published, proc, runs, lastRun>>

\* paymentRepo.UpdateMidtransData with the charge response; its error ends the
\* handler with 500.
CreateUpdateMidtransData ==
    /\ creator.pc = "midtrans"
    /\ \E ok \in BOOLEAN :
         IF ok
         THEN /\ payments' = [payments EXCEPT ![creator.id] =
                   UpdateMidtransData(@,
                      [transaction_status |-> creator.midtransResp.TransactionStatus,
                       paid_at |-> IF creator.midtransResp.PaidAtSet
                                   THEN creator.midtransResp.PaidAt ELSE NoTime])]
              /\ creator' = [creator EXCEPT !.pc = "wait"]
         ELSE /\ payments' = payments
              /\ creator' = [creator EXCEPT !.pc = "respond", !.resp = 500]
    /\ UNCHANGED <<cache, published, proc, runs, lastRun>>

\* "updatedPayment, err := ph.waitForPaymentData(...)": the payment as
\* re-read from the store, or the handler's own payment struct when
\* waitForPaymentData returned an error.
CreateWaitWith(ok) ==
    /\ creator.pc = "wait"
    /\ creator' = [creator EXCEPT !.pc = "finish",
                      !.updatedPayment = IF ok THEN payments[creator.id]
                                         ELSE creator.payment]
    /\ UNCHANGED <<payments, cache, published, proc, runs, lastRun>>

\* waitForPaymentData with whatever it returns.
CreateWait == \E ok \in BOOLEAN : CreateWaitWith(ok)

-----------------------------------------------------------------------------
(* waitForPaymentData, one iteration of its loop per step *)

\* ph.waitForPaymentData(payment.ID, 5, 1*time.Second)
WaitMaxRetries == 5

PaymentMethods ==
    {"credit_card", "bank_transfer", "gopay", "qris", "shopeepay", "echannel",
     "permata", "cstore"}

\* A *string column of the row: NULL, empty, or a value.
NilString == "nil"
StoredStrings == {NilString, "", "value"}

\* What GetByIDWithoutRelations returns: an error, or the row with its
\* VANumber and PaymentCode.
NoRead == [err |-> FALSE, VANumber |-> NilString, PaymentCode |-> NilString]
StoreReads ==
    {[NoRead EXCEPT !.err = TRUE]}
       \cup [err : {FALSE}, VANumber : StoredStrings, PaymentCode : StoredStrings]

\* Variant of the test that takes the row as ready for every method.
HasRequiredDataAnyMethod(method, row) == TRUE

\* waitForPaymentData, the switch on payment.PaymentMethod.
HasRequiredData(method, row) ==
    CASE method \in {"bank_transfer", "permata"} ->
           row.VANumber # NilString /\ row.VANumber # ""
      [] method = "cstore" ->
           row.PaymentCode # NilString /\ row.PaymentCode # ""
      [] OTHER -> TRUE

\* The call: its loop counter, the number of reads of the store so far, the
\* last read, and what it returned (the row or nil, and the error).
IdleWaiter ==
    [pc |-> "idle", method |-> "", attempt |-> 0, reads |-> 0, last |-> NoRead,
     payment |-> "nil", err |-> ""]

\* CreatePayment calls waitForPaymentData for a payment of the given method.
WaitBegin(method) ==
    /\ creator.pc = "wait"
    /\ waiter.pc = "idle"
    /\ waiter' = [IdleWaiter EXCEPT !.pc = "loop", !.method = method]

\* One iteration of the loop of waitForPaymentData.
WaitAttempt(read) ==
    /\ waiter.pc = "loop"
    /\ waiter.attempt < WaitMaxRetries
    /\ LET w == [waiter EXCEPT !.reads = @ + 1, !.last = read] IN
       waiter' =
         IF read.err
         THEN IF waiter.attempt < WaitMaxRetries - 1
              THEN [w EXCEPT !.attempt = @ + 1]
              ELSE [w EXCEPT !.pc = "returned", !.err = "read error"]
         ELSE IF HasRequiredData(waiter.method, read)
         THEN [w EXCEPT !.pc = "returned", !.payment = "row"]
         ELSE IF waiter.attempt + 1 < WaitMaxRetries
         THEN [w EXCEPT !.attempt = @ + 1]
         ELSE [w EXCEPT !.attempt = @ + 1, !.pc = "returned",
                        !.err = "payment data not ready after 5 attempts"]

\* waitForPaymentData has returned.
WaitReturned == waiter.pc = "returned"

WaitInit == waiter = IdleWaiter

\* SetPayment, SetPaymentByOrderID, PublishPaymentCreated, DeleteUserPayments,
\* then 200.
CreateFinish ==
    /\ creator.pc = "finish"
    /\ LET paymentResponse == creator.updatedPayment.Status
           c1 == CacheSetKey(cache, PaymentKey(creator.id), paymentResponse)
           c2 == CacheSetKey(c1, PaymentByOrderIDKey(creator.payment.OrderID),
                             paymentResponse)
       IN  cache' = CacheDel(c2, UserPaymentsKey(creator.payment.UserID))
    /\ published' = [published EXCEPT ![creator.id]["payment.created"] = @ + 1]
    /\ creator' = [creator EXCEPT !.pc = "respond", !.resp = 200]
    /\ UNCHANGED <<payments, proc, runs, lastRun>>

\* The handler returns.
CreateReturn ==
    /\ creator.pc = "respond"
    /\ creator' = [creator EXCEPT !.pc = "idle"]
    /\ UNCHANGED <<payments, cache, published, proc, runs, lastRun>>

-----------------------------------------------------------------------------
(* Read handlers: GetPayment, GetPaymentByOrderID, GetUserPayments.  Each   *)
(* answers from the cache when the key is there, and otherwise from the     *)
(* store, caching what it answers.                                          *)

\* paymentRepo.GetByUserID as the list response shows it: the payments of the
\* user with their statuses, in one string.
RECURSIVE ListOf(_, _)
ListOf(ids, userID) ==
    IF ids = {} THEN ""
    ELSE LET id == CHOOSE i \in ids : TRUE
         IN  (IF payments[id].exists /\ payments[id].UserID = userID
              THEN id \o ":" \o payments[id].Status \o ";" ELSE "")
             \o ListOf(ids \ {id}, userID)

PaymentsOfUser(userID) == "list:" \o ListOf(PaymentIDs, userID)

\* GetPayment: cacheSvc.GetPayment, else paymentRepo.GetByID (404 when there
\* is no row) and cacheSvc.SetPayment.
GetPayment(id) ==
    /\ cache[PaymentKey(id)] = CacheMiss
    /\ payments[id].exists
    /\ cache' = CacheSetKey(cache, PaymentKey(id), payments[id].Status)
    /\ UNCHANGED <<payments, published, proc, creator, runs, lastRun>>

\* GetPaymentByOrderID: cacheSvc.GetPaymentByOrderID, else
\* paymentRepo.GetByOrderID and cacheSvc.SetPaymentByOrderID.
GetPaymentByOrderID(orderID) ==
    /\ cache[PaymentByOrderIDKey(orderID)] = CacheMiss
    /\ GetByOrderID(orderID).row.exists
    /\ cache' = CacheSetKey(cache, PaymentByOrderIDKey(orderID),
                            GetByOrderID(orderID).row.Status)
    /\ UNCHANGED <<payments, published, proc, creator, runs, lastRun>>

\* GetUserPayments: cacheSvc.GetUserPayments(cacheKey), else
\* paymentRepo.GetByUserID and cacheSvc.SetUserPayments(cacheKey), also when
\* the list is empty.
GetUserPayments(userID, page, limit) ==
    LET cacheKey == ListCacheKey(userID, page, limit) IN
    /\ cache[UserPaymentsKey(cacheKey)] = CacheMiss
    /\ cache' = CacheSetKey(cache, UserPaymentsKey(cacheKey), PaymentsOfUser(userID))
    /\ UNCHANGED <<payments, published, proc, creator, runs, lastRun>>

\* A GetPayment or GetPaymentByOrderID call between its read of the store and
\* its write of the cache: the key it is to set and the status it read.
IdleReader == [pc |-> "idle", key |-> "", status |-> CacheMiss]

\* The local paymentResponse = payment.ToResponse() of the row just read.
ReadRow(r, key, row) == [r EXCEPT !.pc = "fill", !.key = key, !.status = row.Status]

\* GetPayment up to the store read: a miss of cacheSvc.GetPayment, then
\* paymentRepo.GetByID.
GetPaymentLoad(id) ==
    /\ reader.pc = "idle"
    /\ cache[PaymentKey(id)] = CacheMiss
    /\ payments[id].exists
    /\ reader' = ReadRow(reader, PaymentKey(id), payments[id])

\* GetPaymentByOrderID up to the store read: a miss of
\* cacheSvc.GetPaymentByOrderID, then paymentRepo.GetByOrderID.
GetPaymentByOrderIDLoad(orderID) ==
    /\ reader.pc = "idle"
    /\ cache[PaymentByOrderIDKey(orderID)] = CacheMiss
    /\ GetByOrderID(orderID).row.exists
    /\ reader' = ReadRow(reader, PaymentByOrderIDKey(orderID), GetByOrderID(orderID).row)

\* cacheSvc.SetPayment / SetPaymentByOrderID of the response built from the
\* row read, then 200.
ReadCacheFill ==
    /\ reader.pc = "fill"
    /\ cache' = CacheSetKey(cache, reader.key, reader.status)
    /\ reader' = IdleReader
    /\ UNCHANGED <<payments, published, proc, creator, runs, lastRun>>

ReadInit == reader = IdleReader

ProductAnswers ==
    { [found |-> f, ID |-> "prod1", IsActive |-> a, Stock |-> st] :
        f \in BOOLEAN, a \in BOOLEAN, st \in {-1, 0, 1} }

-----------------------------------------------------------------------------
(* Initial states and steps of the payment service *)

\* The row a successful CreatePayment leaves in the store.
CreatedPayment ==
    [exists |-> TRUE, OrderID |-> "Order_1", UserID |-> "user1",
     ProductID |-> "prod1",
     Amount |-> 100000, AdminFee |-> 2500, TotalAmount |-> 102500,
     Status |-> PaymentStatusPending, PaidAt |-> NoTime,
     TransactionStatus |-> "pending"]

\* The reconciliation engine starts from a store that holds a payment as
\* CreatePayment created it (cached, "payment.created" published).
ReconInit ==
    /\ payments = [id \in PaymentIDs |-> CreatedPayment]
    /\ cache = [NoCache EXCEPT ![PaymentKey("pay1")] = PaymentStatusPending,
                                ![PaymentByOrderIDKey("Order_1")] = PaymentStatusPending]
    /\ published = [id \in PaymentIDs |-> [NoEvents EXCEPT !["payment.created"] = 1]]
    /\ proc = [w \in Reconcilers |-> IdleProc]
    /\ creator = [IdleCreator EXCEPT !.started = TRUE, !.charge = "ok", !.id = "pay1",
                                     !.product = [found |-> TRUE, ID |-> "prod1",
                                                  IsActive |-> TRUE, Stock |-> 1],
                                     !.payment = [CreatedPayment EXCEPT !.exists = FALSE],
                                     !.chargeReq = ChargeRequest(CreatedPayment)]
    /\ runs = 0
    /\ lastRun = [id \in PaymentIDs |-> NoRun]

\* CreatePayment starts on an empty store.
CreateInit ==
    /\ payments = [id \in PaymentIDs |-> NoPayment]
    /\ cache = NoCache
    /\ published = [id \in PaymentIDs |-> NoEvents]
    /\ proc = [w \in Reconcilers |-> IdleProc]
    /\ creator = IdleCreator
    /\ runs = 0
    /\ lastRun = [id \in PaymentIDs |-> NoRun]

\* One reconciliation request at a time: a handler begins only when no other
\* is in flight.
NoneInFlight == \A w \in Reconcilers : proc[w].pc = "idle"

-----------------------------------------------------------------------------
(* Validation saga coordinator (ValidationConsumer).  Every section of a    *)
(* handler that runs under vc.mu is one step.                               *)

\* Bounds: replies delivered, AddPendingValidation calls, ticker periods.
MaxReplies == 3
MaxRegistrations == 2
MaxTicks == 3

\* The cleanup ticker's period and the age beyond which a record is evicted,
\* in minutes.
SweepIntervalMinutes == 5
ExpiryMinutes == 10

SagaPaymentIDs == {"pay1"}
ProductReplyStatuses == {"PRODUCT_OK", "OUT_OF_STOCK"}
UserReplyStatuses == {"USER_OK", "USER_NOT_FOUND"}

\* events.Event as processMessage reads it: Type, and payment_id and status of
\* Data.  "pay9" is an id with no registration, "" a missing payment_id.
ReplyEvents ==
    [Type : {"product.validation.response"}, payment_id : {"pay1", "pay9", ""},
     status : ProductReplyStatuses]
    \cup [Type : {"user.validation.response"}, payment_id : {"pay1", "pay9", ""},
          status : UserReplyStatuses]
    \cup [Type : {"product.created"}, payment_id : {"pay1"}, status : {""}]

\* A delivery whose body json.Unmarshal rejects.
UnparseableBody == [Type |-> "unparseable body", payment_id |-> "", status |-> ""]

\* What the consumer goroutine takes from msgs.
Deliveries == ReplyEvents \cup {UnparseableBody}

\* How a processMessage call ended: msg.Ack or msg.Nack, and whether a
\* handler logged that it found no record for the payment id (the other log
\* lines are not modelled).
NoDelivery == [call |-> "none", log |-> ""]

\* msg.Nack(false, false)
Nacked(log) == [call |-> "Nack", log |-> log]

\* Variant of the acknowledgement that rejects the delivery.
AckedByNack(log) == [call |-> "Nack", log |-> log]

\* msg.Ack(false)
Acked(log) == [call |-> "Ack", log |-> log]

\* The log line of a delivery that is dropped before touching a record: a
\* reply with a payment id comes as far as the lookup in the map.
DropLog(event) ==
    IF /\ event.Type \in {"product.validation.response", "user.validation.response"}
       /\ event.payment_id # ""
    THEN "No pending validation found"
    ELSE ""

NoPending ==
    [exists |-> FALSE, gen |-> 0, CreatedAt |-> 0,
     ProductValidated |-> FALSE, UserValidated |-> FALSE,
     ProductStatus |-> "", UserStatus |-> ""]

Consumers == {"c1", "c2"}
IdleConsumer == [pc |-> "idle", paymentID |-> "", pending |-> NoPending]

\* The deliveries are interchangeable: one that arrives when none is being
\* handled is taken by c1.
ConsumerFree(c) ==
    consumer[c].pc = "idle" /\ (c = "c2" => consumer["c1"].pc # "idle")

\* History of one AddPendingValidation call: what became of its record and
\* what was dispatched for it.
NewRegistration(id) ==
    [PaymentID |-> id, fate |-> "live",
     productRecorded |-> FALSE, userRecorded |-> FALSE,
     ProductStatus |-> "", UserStatus |-> "",
     completed |-> 0, failed |-> 0]

\* Variant of the removal that leaves the record in the map.
KeepPending(pv, paymentID) == pv

\* delete(vc.pendingValidations, paymentID)
DeletePending(pv, paymentID) == [pv EXCEPT ![paymentID] = NoPending]

\* Variant of the decision that takes one OK for success.
EitherValidationOK(pending) ==
    pending.ProductStatus = "PRODUCT_OK" \/ pending.UserStatus = "USER_OK"

\* The condition of checkValidationComplete that selects
\* handleValidationSuccess over handleValidationFailure.
BothValidationsOK(pending) ==
    pending.ProductStatus = "PRODUCT_OK" /\ pending.UserStatus = "USER_OK"

\* Variant of the overwrite that keeps the reply state of the record it finds.
MergedPendingValidation(old, g, now) ==
    [old EXCEPT !.exists = TRUE, !.gen = g, !.CreatedAt = now]

\* The &PendingValidation{...} literal of AddPendingValidation: CreatedAt is
\* time.Now(), both flags are false and both statuses empty, whatever the map
\* held under the key.
FreshPendingValidation(old, g, now) ==
    [NoPending EXCEPT !.exists = TRUE, !.gen = g, !.CreatedAt = now]

\* AddPendingValidation: the map entry is overwritten by a fresh record.
AddPendingValidation(paymentID) ==
    /\ Len(registrations) < MaxRegistrations
    /\ LET old == pendingValidations[paymentID]
           g == Len(registrations) + 1
           marked == IF old.exists
                     THEN [registrations EXCEPT ![old.gen].fate = "replaced"]
                     ELSE registrations
       IN  /\ registrations' = Append(marked, NewRegistration(paymentID))
           /\ pendingValidations' = [pendingValidations EXCEPT ![paymentID] =
                  FreshPendingValidation(old, g, sagaNow)]
    /\ UNCHANGED <<consumer, sagaNow, nextSweep, delivered, lastDelivery>>

\* processMessage with handleProductValidationResponse or
\* handleUserValidationResponse up to its vc.mu.Unlock().  A delivery that is
\* dropped is acknowledged in the same step; an unparseable one is rejected.
HandleValidationResponse(c, event) ==
    /\ ConsumerFree(c)
    /\ delivered < MaxReplies
    /\ delivered' = delivered + 1
    /\ LET id == event.payment_id
           isProduct == event.Type = "product.validation.response"
           isUser == event.Type = "user.validation.response"
       IN  IF event = UnparseableBody
           THEN /\ lastDelivery' = Nacked("")
                /\ UNCHANGED <<pendingValidations, consumer, registrations>>
           ELSE IF (~isProduct /\ ~isUser) \/ id = "" \/ id \notin SagaPaymentIDs
                   \/ ~pendingValidations[id].exists
           THEN /\ lastDelivery' = Acked(DropLog(event))
                /\ UNCHANGED <<pendingValidations, consumer, registrations>>
           ELSE LET g == pendingValidations[id].gen IN
                /\ pendingValidations' = [pendingValidations EXCEPT ![id] =
                      IF isProduct
                      THEN [@ EXCEPT !.ProductValidated = TRUE,
                                     !.ProductStatus = event.status]
                      ELSE [@ EXCEPT !.UserValidated = TRUE,
                                     !.UserStatus = event.status]]
                /\ registrations' = [registrations EXCEPT ![g] =
                      IF isProduct
                      THEN [@ EXCEPT !.productRecorded = TRUE,
                                     !.ProductStatus = event.status]
                      ELSE [@ EXCEPT !.userRecorded = TRUE,
                                     !.UserStatus = event.status]]
                /\ consumer' = [consumer EXCEPT ![c] =
                      [IdleConsumer EXCEPT !.pc = "check", !.paymentID = id]]
                /\ lastDelivery' = lastDelivery
    /\ UNCHANGED <<sagaNow, nextSweep>>

\* checkValidationComplete up to its vc.mu.Unlock(): nothing to do when the
\* record is gone or a reply is missing; otherwise the record is removed and
\* the goroutine keeps the pointer to it.
CheckValidationComplete(c) ==
    /\ consumer[c].pc = "check"
    /\ LET id == consumer[c].paymentID
           pending == pendingValidations[id]
       IN  IF ~pending.exists \/ ~pending.ProductValidated \/ ~pending.UserValidated
           THEN /\ consumer' = [consumer EXCEPT ![c] = IdleConsumer]
                /\ lastDelivery' = Acked("")
                /\ UNCHANGED <<pendingValidations, registrations>>
           ELSE /\ pendingValidations' = DeletePending(pendingValidations, id)
                /\ consumer' = [consumer EXCEPT ![c].pc = "dispatch",
                                                ![c].pending = pending]
                /\ registrations' = [registrations EXCEPT
                      ![pending.gen].fate = "completed"]
                /\ lastDelivery' = lastDelivery
    /\ UNCHANGED <<sagaNow, nextSweep, delivered>>

\* Variant of the failure path that marks the payment of the order FAILED.
PaymentFailedOnValidationFailure(store, paymentID) ==
    IF paymentID \in DOMAIN store
    THEN [store EXCEPT ![paymentID].Status = PaymentStatusFailed]
    ELSE store

\* The payment store after handleValidationFailure: the function publishes
\* the order failed event and makes no call of vc.paymentRepo.
AfterValidationFailure(store, paymentID) == store

\* The rest of checkValidationComplete, outside the lock:
\* handleValidationSuccess (PublishOrderCompleted) or handleValidationFailure
\* (PublishOrderFailed), then msg.Ack.
DispatchCompletion(c) ==
    /\ consumer[c].pc = "dispatch"
    /\ payments' = IF BothValidationsOK(consumer[c].pending)
                   THEN payments
                   ELSE AfterValidationFailure(payments, consumer[c].paymentID)
    /\ LET pending == consumer[c].pending IN
       registrations' = [registrations EXCEPT ![pending.gen] =
           IF BothValidationsOK(pending)
           THEN [@ EXCEPT !.completed = @ + 1]
           ELSE [@ EXCEPT !.failed = @ + 1]]
    /\ consumer' = [consumer EXCEPT ![c] = IdleConsumer]
    /\ lastDelivery' = Acked("")
    /\ UNCHANGED <<pendingValidations, sagaNow, nextSweep, delivered>>

\* Variant of the age test that never finds a record expired.
ExpiredNever(pending, now) == FALSE

\* Variant of the age test that finds a record expired at the timeout.
ExpiredAtTimeout(pending, now) == now - pending.CreatedAt >= ExpiryMinutes

\* now.Sub(pending.CreatedAt) > 10*time.Minute
Expired(pending, now) == now - pending.CreatedAt > ExpiryMinutes

\* Variant of the eviction that reports the order as failed.
EvictedWithOrderFailed(h) == [h EXCEPT !.fate = "evicted", !.failed = @ + 1]

\* What the sweep does for a record it finds expired: a log line and the
\* delete; no call of eventSvc.
Evicted(h) == [h EXCEPT !.fate = "evicted"]

\* One round of cleanupExpiredValidations, when the ticker fires: every
\* expired record is deleted under the lock; nothing is published.
CleanupExpiredValidations ==
    /\ sagaNow >= nextSweep
    /\ nextSweep' = nextSweep + SweepIntervalMinutes
    /\ LET gone == {id \in SagaPaymentIDs :
                      pendingValidations[id].exists
                      /\ Expired(pendingValidations[id], sagaNow)}
       IN  /\ pendingValidations' =
                [id \in SagaPaymentIDs |->
                    IF id \in gone THEN NoPending ELSE pendingValidations[id]]
           /\ registrations' =
                [g \in DOMAIN registrations |->
                    IF \E id \in gone : pendingValidations[id].gen = g
                    THEN Evicted(registrations[g])
                    ELSE registrations[g]]
    /\ UNCHANGED <<consumer, sagaNow, delivered, lastDelivery>>

\* Time passes, one ticker period at a time; a round of the cleanup that is
\* due runs before more time passes.
SagaTick ==
    /\ sagaNow < nextSweep
    /\ sagaNow < MaxTicks * SweepIntervalMinutes
    /\ sagaNow' = sagaNow + SweepIntervalMinutes
    /\ UNCHANGED <<pendingValidations, consumer, nextSweep, registrations, delivered,
                   lastDelivery>>

\* Time passes up to any minute not later than the ticker's next firing.
SagaMinutes ==
    /\ sagaNow < nextSweep
    /\ sagaNow < MaxTicks * SweepIntervalMinutes
    /\ \E t \in (sagaNow + 1)..nextSweep : sagaNow' = t
    /\ UNCHANGED <<pendingValidations, consumer, nextSweep, registrations, delivered,
                   lastDelivery>>

\* The goroutines that take vc.mu: the consumer, the cleanup goroutine, and
\* the caller of AddPendingValidation.
Goroutines == Consumers \cup {"sweep", "add"}

\* A delivery that gets as far as the vc.mu.Lock() of its handler: a product
\* or user reply with a payment id.
ReachesLock(event) ==
    /\ event.Type \in {"product.validation.response", "user.validation.response"}
    /\ event.payment_id # ""

\* The goroutine g is about to run a section that begins with vc.mu.Lock().
WantsLock(g) ==
    CASE g = "sweep" -> sagaNow >= nextSweep
      [] g = "add" -> Len(registrations) < MaxRegistrations
      [] OTHER -> \/ consumer[g].pc = "check"
                  \/ /\ \A c \in Consumers : consumer[c].pc = "idle"
                     /\ ConsumerFree(g)
                     /\ delivered < MaxReplies

\* vc.mu.Lock(): the goroutine waits until the mutex is free and takes it.
LockMu(g) ==
    /\ WantsLock(g)
    /\ mu = "free"
    /\ mu' = g
    /\ UNCHANGED <<pendingValidations, consumer, sagaNow, nextSweep, registrations,
                   delivered, lastDelivery>>

\* Variant of checkValidationComplete that unlocks when it returns.
HeldThroughDispatch(c) == c

\* checkValidationComplete: vc.mu.Unlock() right after the delete, before
\* handleValidationSuccess or handleValidationFailure.
UnlockAfterRemoval(c) == "free"

\* NewValidationConsumer and Start: an empty map, the ticker armed.
SagaInit ==
    /\ pendingValidations = [id \in SagaPaymentIDs |-> NoPending]
    /\ consumer = [c \in Consumers |-> IdleConsumer]
    /\ sagaNow = 0
    /\ nextSweep = SweepIntervalMinutes
    /\ registrations = <<>>
    /\ delivered = 0
    /\ lastDelivery = NoDelivery
    /\ mu = "free"

-----------------------------------------------------------------------------
(* Worker pool of product-service (WorkerPool).  Every channel operation    *)
(* and every update of activeJobs is one step.                              *)

\* Bounds: worker goroutines, requests submitted, requests whose context is
\* cancelled.
Workers == 1
MaxRequests == 3
MaxCancels == 1

\* make(chan Request, workers*2); the callers' make(chan Response, 1).
QueueMultiplier == 2
ReplyCapacity == 1

QueueCapacity == Workers * QueueMultiplier
\* Variant of Start that launches one goroutine more than wp.workers.
WorkerIDsOneMore == 0..Workers

\* Start: "for i := 0; i < wp.workers; i++ { go wp.worker(i) }"
WorkerIDs == 0..(Workers - 1)
RequestIDs == 1..MaxRequests

\* The request types processRequest has a case for, and one it has none for.
HandledTypes == {"get_products", "get_product_by_id"}
RequestTypes == HandledTypes \cup {"delete_product"}

\* Capacities of a caller's reply channel: the handlers' make(chan Response,
\* 1), and an unbuffered channel.
ReplyCapacities == {0, ReplyCapacity}

\* A Request with its caller: how SubmitRequest ended (st), req.Type, the
\* capacity of req.Response, whether req.Context is cancelled, the replies
\* written to req.Response (which the caller does not take out), what the
\* queue and the pool looked like when it was submitted, and what the worker
\* that dequeued it did with it (path, the handler calls made, the local
\* variable response, finished).
NewRequest ==
    [st |-> "new", Type |-> "", cap |-> 0, ctxDone |-> FALSE, Response |-> <<>>,
     sawFull |-> FALSE, sawStop |-> FALSE, path |-> "none",
     handlerRuns |-> 0, response |-> "", finished |-> FALSE]

OffWorker == [pc |-> "off", req |-> 0]

\* The idle workers are interchangeable: of those waiting in the select of
\* the worker loop, the one with the lowest number proceeds.
FirstIdle(w) ==
    /\ worker[w].pc = "idle"
    /\ \A v \in WorkerIDs : v < w => worker[v].pc # "idle"

\* Variant of the send case that is ready whatever the queue holds.
SendAlwaysReady(ch, closed) == TRUE

\* Whether "case wp.requestCh <- req" can proceed: the buffer has room, or the
\* channel is closed (and the send panics).
SendReady(ch, closed) == closed \/ Len(ch) < QueueCapacity

\* The select of SubmitRequest: one of the ready cases, the default when none
\* is ready.
SubmitOutcomes(ch, closed, ctxDone) ==
    LET ready == (IF SendReady(ch, closed)
                  THEN {IF closed THEN "panic" ELSE "sent"} ELSE {})
                 \cup (IF ctxDone THEN {"shutdown"} ELSE {})
    IN  IF ready = {} THEN {"full"} ELSE ready

\* SubmitRequest up to the end of its select, for a request of the given
\* type whose reply channel has the given capacity.  Requests are numbered in
\* the order of their submission, and a caller submits when the caller before
\* it has returned from SubmitRequest.
SubmitRequestOf(r, type, cap) ==
    /\ reqs[r].st = "new"
    /\ IF r = 1 THEN TRUE ELSE reqs[r - 1].st \notin {"new", "sent"}
    /\ \E o \in SubmitOutcomes(requestCh, chClosed, poolCtxDone) :
         /\ reqs' = [reqs EXCEPT ![r].st = o,
                                 ![r].Type = type,
                                 ![r].cap = cap,
                                 ![r].sawFull = Len(requestCh) >= QueueCapacity,
                                 ![r].sawStop = poolCtxDone \/ chClosed]
         /\ requestCh' = IF o = "sent" THEN Append(requestCh, r) ELSE requestCh
    /\ UNCHANGED <<chClosed, poolCtxDone, activeJobs, worker, stopPc>>

\* SubmitRequest as ProductHandler.GetProducts calls it: Type "get_products",
\* Response make(chan Response, 1).
SubmitRequest(r) == SubmitRequestOf(r, "get_products", ReplyCapacity)

\* SubmitRequest after a successful send: wp.activeJobs++, return nil.
CountJob(r) ==
    /\ reqs[r].st = "sent"
    /\ reqs' = [reqs EXCEPT ![r].st = "accepted"]
    /\ activeJobs' = activeJobs + 1
    /\ UNCHANGED <<requestCh, chClosed, poolCtxDone, worker, stopPc>>

\* The request's context is cancelled (deadline, or the client went away).
\* Only the worker that holds the request reads req.Context, so a cancellation
\* that comes while the request is queued is taken when the worker has just
\* dequeued it.
CancelRequest(r) ==
    /\ \E w \in WorkerIDs :
          worker[w].req = r /\ worker[w].pc \in {"precheck", "handler", "send"}
    /\ ~reqs[r].ctxDone
    /\ Cardinality({q \in RequestIDs : reqs[q].ctxDone}) < MaxCancels
    /\ reqs' = [reqs EXCEPT ![r].ctxDone = TRUE]
    /\ UNCHANGED <<requestCh, chClosed, poolCtxDone, activeJobs, worker, stopPc>>

Started == \A w \in WorkerIDs : worker[w].pc # "off"

HandlersSet == handlers = HandledTypes

\* ProductHandler.UpdateWorkerPoolHandlers: both handler fields are set.
UpdateWorkerPoolHandlers ==
    /\ Started
    /\ handlers = {}
    /\ handlers' = HandledTypes
    /\ UNCHANGED <<requestCh, chClosed, poolCtxDone, activeJobs, worker, reqs, stopPc>>

\* Start: the worker goroutines are launched.
Start ==
    /\ \A w \in WorkerIDs : worker[w].pc = "off"
    /\ stopPc = "none"
    /\ worker' = [w \in WorkerIDs |-> [pc |-> "idle", req |-> 0]]
    /\ UNCHANGED <<requestCh, chClosed, poolCtxDone, activeJobs, reqs, stopPc>>

\* worker: "case req, ok := <-wp.requestCh" with a request in the buffer.
Dequeue(w) ==
    /\ FirstIdle(w)
    /\ Len(requestCh) > 0
    /\ worker' = [worker EXCEPT ![w] = [pc |-> "precheck", req |-> Head(requestCh)]]
    /\ requestCh' = Tail(requestCh)
    /\ reqs' = [reqs EXCEPT ![Head(requestCh)].path = "dequeued"]
    /\ UNCHANGED <<chClosed, poolCtxDone, activeJobs, stopPc>>

\* worker: the receive from the closed and drained channel (!ok), or
\* "case <-wp.ctx.Done()"; the goroutine returns.
WorkerExit(w) ==
    /\ FirstIdle(w)
    /\ (chClosed /\ Len(requestCh) = 0) \/ poolCtxDone
    /\ worker' = [worker EXCEPT ![w].pc = "exited"]
    /\ UNCHANGED <<requestCh, chClosed, poolCtxDone, activeJobs, reqs, stopPc>>

\* Whether a send on req.Response can proceed.
ResponseRoom(r) == Len(reqs[r].Response) < reqs[r].cap

\* processRequest, "Check if request context is already cancelled": a
\* cancelled request is answered with the cancellation error by a plain send,
\* which waits for room in req.Response; any other goes to its handler.
CheckCancelled(w) ==
    /\ worker[w].pc = "precheck"
    /\ LET r == worker[w].req IN
       IF reqs[r].ctxDone
       THEN /\ ResponseRoom(r)
            /\ reqs' = [reqs EXCEPT ![r].Response = Append(@, "request context cancelled"),
                                    ![r].path = "cancelled"]
            /\ worker' = [worker EXCEPT ![w].pc = "decrement"]
       ELSE /\ reqs' = reqs
            /\ worker' = [worker EXCEPT ![w].pc = "handler"]
    /\ UNCHANGED <<requestCh, chClosed, poolCtxDone, activeJobs, stopPc>>

\* Variant of the switch that calls the handler of a handled type also when
\* the field is nil.
DispatchWithoutNilCheck(type, set) ==
    CASE type \in HandledTypes -> [runs |-> 1, response |-> "response"]
      [] OTHER -> [runs |-> 0, response |-> "unknown request type: " \o type]

\* processRequest, the switch on req.Type: the handler of the type is called
\* when its field is not nil; otherwise, and for a type without a case, the
\* response is an error.
Dispatch(type, set) ==
    CASE type \in HandledTypes /\ type \in set ->
           [runs |-> 1, response |-> "response"]
      [] type = "get_products" ->
           [runs |-> 0, response |-> "get products handler not set"]
      [] type = "get_product_by_id" ->
           [runs |-> 0, response |-> "get product by id handler not set"]
      [] OTHER ->
           [runs |-> 0, response |-> "unknown request type: " \o type]

\* processRequest, "Process the request based on type": the local variable
\* response is set, by the handler when one is called.
RunHandler(w) ==
    /\ worker[w].pc = "handler"
    /\ worker' = [worker EXCEPT ![w].pc = "send"]
    /\ LET r == worker[w].req
           d == Dispatch(reqs[r].Type, handlers)
       IN  reqs' = [reqs EXCEPT ![r].handlerRuns = @ + d.runs,
                               ![r].response = d.response]
    /\ UNCHANGED <<requestCh, chClosed, poolCtxDone, activeJobs, stopPc>>

\* Variant of the final select that may give up the reply at any time.
SendOutcomesMayAbandon(room, ctxDone) ==
    (IF room THEN {"sent"} ELSE {}) \cup {"abandoned"}

\* The final select of processRequest: the cases that are ready.
SendOutcomes(room, ctxDone) ==
    (IF room THEN {"sent"} ELSE {}) \cup (IF ctxDone THEN {"abandoned"} ELSE {})

\* processRequest, "Send response": one of the ready cases of the select; the
\* worker waits while none is.
SendResponse(w) ==
    /\ worker[w].pc = "send"
    /\ LET r == worker[w].req IN
       \E o \in SendOutcomes(ResponseRoom(r), reqs[r].ctxDone) :
          reqs' = [reqs EXCEPT ![r].Response = IF o = "sent"
                                                THEN Append(@, reqs[r].response)
                                                ELSE @,
                                  ![r].path = o]
    /\ worker' = [worker EXCEPT ![w].pc = "decrement"]
    /\ UNCHANGED <<requestCh, chClosed, poolCtxDone, activeJobs, stopPc>>

\* decrementActiveJobs, and processRequest returns to the worker's loop.
DecrementActiveJobs(w) ==
    /\ worker[w].pc = "decrement"
    /\ activeJobs' = activeJobs - 1
    /\ reqs' = [reqs EXCEPT ![worker[w].req].finished = TRUE]
    /\ worker' = [worker EXCEPT ![w] = [pc |-> "idle", req |-> 0]]
    /\ UNCHANGED <<requestCh, chClosed, poolCtxDone, stopPc>>

\* Stop: wp.cancel()
StopCancel ==
    /\ stopPc = "none"
    /\ Started
    /\ poolCtxDone' = TRUE
    /\ stopPc' = "cancelled"
    /\ UNCHANGED <<requestCh, chClosed, activeJobs, worker, reqs>>

\* Stop: close(wp.requestCh)
StopClose ==
    /\ stopPc = "cancelled"
    /\ chClosed' = TRUE
    /\ stopPc' = "closed"
    /\ UNCHANGED <<requestCh, poolCtxDone, activeJobs, worker, reqs>>

\* Stop: wp.wg.Wait() returns once every worker goroutine has returned.
StopWait ==
    /\ stopPc = "closed"
    /\ \A w \in WorkerIDs : worker[w].pc = "exited"
    /\ stopPc' = "stopped"
    /\ UNCHANGED <<requestCh, chClosed, poolCtxDone, activeJobs, worker, reqs>>

\* NewWorkerPool
PoolInit ==
    /\ requestCh = <<>>
    /\ chClosed = FALSE
    /\ poolCtxDone = FALSE
    /\ activeJobs = 0
    /\ worker = [w \in WorkerIDs |-> OffWorker]
    /\ reqs = [r \in RequestIDs |-> NewRequest]
    /\ stopPc = "none"
    /\ handlers = {}

-----------------------------------------------------------------------------
(* Specifications *)

Init == ReconInit /\ SagaInit /\ PoolInit /\ GatewayInit /\ WaitInit /\ ReadInit

ReconOnly == UNCHANGED <<sagaVars, poolVars, gatewayVars, waitVars, readVars>>
SagaOnly == UNCHANGED <<reconVars, poolVars, gatewayVars, waitVars, readVars, mu>>
OtherThanSaga == UNCHANGED <<reconVars, poolVars, gatewayVars, waitVars, readVars>>
DispatchOnly ==
    UNCHANGED <<cache, published, proc, creator, runs, lastRun, poolVars, gatewayVars,
                waitVars, readVars>>
PoolOnly == UNCHANGED <<reconVars, sagaVars, gatewayVars, waitVars, readVars, handlers>>
ReadOnly == UNCHANGED <<reconVars, sagaVars, poolVars, gatewayVars, waitVars>>
WaitOnly == UNCHANGED <<reconVars, sagaVars, poolVars, gatewayVars, readVars>>

\* Reconciliation handlers running concurrently.
Next ==
    \/ \E w \in Reconcilers, req \in CallbackRequests :
          runs < MaxConcurrentRuns /\ BeginCallback(w, req) /\ ReconOnly
    \/ \E w \in Reconcilers, id \in PaymentIDs \cup {"pay404"} :
          runs < MaxConcurrentRuns /\ BeginCheck(w, id) /\ ReconOnly
    \/ \E w \in Reconcilers : FetchStatus(w) /\ ReconOnly
    \/ \E w \in Reconcilers : UpdateStatusStep(w) /\ ReconOnly
    \/ \E w \in Reconcilers : UpdateMidtransDataStep(w) /\ ReconOnly
    \/ \E w \in Reconcilers : InvalidateAndPublish(w) /\ ReconOnly
    \/ \E w \in Reconcilers : Reread(w) /\ ReconOnly
    \/ \E w \in Reconcilers : CacheSet(w) /\ ReconOnly
    \/ \E w \in Reconcilers : Return(w) /\ ReconOnly

Spec == Init /\ [][Next]_vars

\* Reconciliation handlers, one request at a time.
SeqNext ==
    \/ \E w \in Reconcilers, req \in CallbackRequests :
          NoneInFlight /\ runs < MaxRuns /\ BeginCallback(w, req) /\ ReconOnly
    \/ \E w \in Reconcilers, id \in PaymentIDs \cup {"pay404"} :
          NoneInFlight /\ runs < MaxRuns /\ BeginCheck(w, id) /\ ReconOnly
    \/ \E w \in Reconcilers : FetchStatus(w) /\ ReconOnly
    \/ \E w \in Reconcilers : UpdateStatusStep(w) /\ ReconOnly
    \/ \E w \in Reconcilers : UpdateMidtransDataStep(w) /\ ReconOnly
    \/ \E w \in Reconcilers : InvalidateAndPublish(w) /\ ReconOnly
    \/ \E w \in Reconcilers : Reread(w) /\ ReconOnly
    \/ \E w \in Reconcilers : CacheSet(w) /\ ReconOnly
    \/ \E w \in Reconcilers : Return(w) /\ ReconOnly

SeqSpec == Init /\ [][SeqNext]_vars

\* Answers of the gateway's status API that give no paid_at.
StatusOnlyResponses == {sr \in StatusResponses : ~sr.PaidAtSet}

\* Reconciliation handlers running concurrently with each other and with a
\* GetPayment or GetPaymentByOrderID call.  The cached status does not depend
\* on paid_at, which the gateway leaves out here.
ReadNext ==
    \/ \E w \in Reconcilers, req \in CallbackRequests :
          runs < MaxReadRuns /\ BeginCallback(w, req) /\ ReconOnly
    \/ \E w \in Reconcilers, id \in PaymentIDs \cup {"pay404"} :
          runs < MaxReadRuns /\ BeginCheck(w, id) /\ ReconOnly
    \/ \E w \in Reconcilers : FetchStatusFrom(w, StatusOnlyResponses) /\ ReconOnly
    \/ \E w \in Reconcilers : UpdateStatusStep(w) /\ ReconOnly
    \/ \E w \in Reconcilers : UpdateMidtransDataStep(w) /\ ReconOnly
    \/ \E w \in Reconcilers : InvalidateAndPublish(w) /\ ReconOnly
    \/ \E w \in Reconcilers : Reread(w) /\ ReconOnly
    \/ \E w \in Reconcilers : CacheSet(w) /\ ReconOnly
    \/ \E w \in Reconcilers : Return(w) /\ ReconOnly
    \/ \E id \in PaymentIDs : GetPaymentLoad(id) /\ ReadOnly
    \/ \E orderID \in OrderIDs : GetPaymentByOrderIDLoad(orderID) /\ ReadOnly
    \/ ReadCacheFill /\ UNCHANGED <<sagaVars, poolVars, gatewayVars, waitVars>>

ReadSpec == Init /\ [][ReadNext]_vars

\* One reconciliation against a gateway that may report any string of
\* GatewayStatuses.
MapNext ==
    \/ \E w \in Reconcilers, req \in CallbackRequests :
          NoneInFlight /\ runs < MaxMapRuns /\ BeginCallback(w, req) /\ ReconOnly
    \/ \E w \in Reconcilers, id \in PaymentIDs \cup {"pay404"} :
          NoneInFlight /\ runs < MaxMapRuns /\ BeginCheck(w, id) /\ ReconOnly
    \/ \E w \in Reconcilers :
          FetchStatusFrom(w, StatusResponsesOf(GatewayStatuses)) /\ ReconOnly
    \/ \E w \in Reconcilers : UpdateStatusStep(w) /\ ReconOnly
    \/ \E w \in Reconcilers : UpdateMidtransDataStep(w) /\ ReconOnly
    \/ \E w \in Reconcilers : InvalidateAndPublish(w) /\ ReconOnly
    \/ \E w \in Reconcilers : Reread(w) /\ ReconOnly
    \/ \E w \in Reconcilers : CacheSet(w) /\ ReconOnly
    \/ \E w \in Reconcilers : Return(w) /\ ReconOnly

MapSpec == Init /\ [][MapNext]_vars

\* The redis keys InvalidatePaymentCache is to delete for the handler's
\* payment, and the events its publish block may publish.
KeysToInvalidate(p) ==
    {PaymentKey(p.id), PaymentByOrderIDKey(p.payment.OrderID),
     UserPaymentsKey(p.payment.UserID)}

\* Reconciliations, one request at a time, with a redis and a broker that may
\* fail any Del and any Publish.
FaultNext ==
    \/ \E w \in Reconcilers, req \in CallbackRequests :
          NoneInFlight /\ runs < MaxFaultRuns /\ BeginCallback(w, req) /\ ReconOnly
    \/ \E w \in Reconcilers, id \in PaymentIDs \cup {"pay404"} :
          NoneInFlight /\ runs < MaxFaultRuns /\ BeginCheck(w, id) /\ ReconOnly
    \/ \E w \in Reconcilers : FetchStatus(w) /\ ReconOnly
    \/ \E w \in Reconcilers : UpdateStatusStep(w) /\ ReconOnly
    \/ \E w \in Reconcilers : UpdateMidtransDataStep(w) /\ ReconOnly
    \/ \E w \in Reconcilers :
          \E delErrors \in SUBSET KeysToInvalidate(proc[w]),
             publishErrors \in SUBSET (EventTypes \ {"payment.created"}) :
             InvalidateAndPublishWith(w, delErrors, publishErrors) /\ ReconOnly
    \/ \E w \in Reconcilers : Reread(w) /\ ReconOnly
    \/ \E w \in Reconcilers : CacheSet(w) /\ ReconOnly
    \/ \E w \in Reconcilers : Return(w) /\ ReconOnly

FaultSpec == Init /\ [][FaultNext]_vars

\* Reconciliations, one request at a time, whose callbacks carry any body.
BodyNext ==
    \/ \E w \in Reconcilers, req \in CallbackRequestsWith(CallbackBodies) :
          NoneInFlight /\ runs < MaxBodyRuns /\ BeginCallback(w, req) /\ ReconOnly
    \/ \E w \in Reconcilers, id \in PaymentIDs \cup {"pay404"} :
          NoneInFlight /\ runs < MaxBodyRuns /\ BeginCheck(w, id) /\ ReconOnly
    \/ \E w \in Reconcilers : FetchStatus(w) /\ ReconOnly
    \/ \E w \in Reconcilers : UpdateStatusStep(w) /\ ReconOnly
    \/ \E w \in Reconcilers : UpdateMidtransDataStep(w) /\ ReconOnly
    \/ \E w \in Reconcilers : InvalidateAndPublish(w) /\ ReconOnly
    \/ \E w \in Reconcilers : Reread(w) /\ ReconOnly
    \/ \E w \in Reconcilers : CacheSet(w) /\ ReconOnly
    \/ \E w \in Reconcilers : Return(w) /\ ReconOnly

BodySpec == Init /\ [][BodyNext]_vars

\* The CreatePayment handler on an empty store.
CreateSpecInit ==
    CreateInit /\ SagaInit /\ PoolInit /\ GatewayInit /\ WaitInit /\ ReadInit

CreateNext ==
    \/ \E amount \in Amounts, fee \in AdminFees, userOK \in BOOLEAN,
          product \in ProductAnswers :
          CreateBegin(amount, fee, userOK, product) /\ ReconOnly
    \/ CreateCharge /\ ReconOnly
    \/ CreatePersist /\ ReconOnly
    \/ CreateUpdateMidtransData /\ ReconOnly
    \/ CreateWait /\ ReconOnly
    \/ CreateFinish /\ ReconOnly
    \/ CreateReturn /\ ReconOnly

CreateSpec == CreateSpecInit /\ [][CreateNext]_vars

\* CreatePayment with the loop of waitForPaymentData.
WaitNext ==
    \/ \E amount \in Amounts, fee \in AdminFees, userOK \in BOOLEAN,
          product \in ProductAnswers :
          CreateBegin(amount, fee, userOK, product) /\ ReconOnly
    \/ CreateCharge /\ ReconOnly
    \/ CreatePersist /\ ReconOnly
    \/ CreateUpdateMidtransData /\ ReconOnly
    \/ \E method \in PaymentMethods : WaitBegin(method) /\ WaitOnly
    \/ \E read \in StoreReads : WaitAttempt(read) /\ WaitOnly
    \/ WaitReturned /\ CreateWaitWith(waiter.err = "") /\ ReconOnly
    \/ CreateFinish /\ ReconOnly
    \/ CreateReturn /\ ReconOnly

WaitSpec == CreateSpecInit /\ [][WaitNext]_vars

\* CreatePayment has returned.
CreateDone == creator.started /\ creator.pc = "idle"

\* The life of a payment: CreatePayment on an empty store and, when it has
\* returned, reconciliations, one at a time, of whatever the store holds.
LifeNext ==
    \/ \E amount \in Amounts, fee \in AdminFees, userOK \in BOOLEAN,
          product \in ProductAnswers :
          CreateBegin(amount, fee, userOK, product) /\ ReconOnly
    \/ CreateCharge /\ ReconOnly
    \/ CreatePersist /\ ReconOnly
    \/ CreateUpdateMidtransData /\ ReconOnly
    \/ CreateWait /\ ReconOnly
    \/ CreateFinish /\ ReconOnly
    \/ CreateReturn /\ ReconOnly
    \/ \E w \in Reconcilers, req \in CallbackRequests :
          CreateDone /\ NoneInFlight /\ runs < MaxLifeRuns
          /\ BeginCallback(w, req) /\ ReconOnly
    \/ \E w \in Reconcilers, id \in PaymentIDs \cup {"pay404"} :
          CreateDone /\ NoneInFlight /\ runs < MaxLifeRuns
          /\ BeginCheck(w, id) /\ ReconOnly
    \/ \E w \in Reconcilers : FetchStatus(w) /\ ReconOnly
    \/ \E w \in Reconcilers : UpdateStatusStep(w) /\ ReconOnly
    \/ \E w \in Reconcilers : UpdateMidtransDataStep(w) /\ ReconOnly
    \/ \E w \in Reconcilers : InvalidateAndPublish(w) /\ ReconOnly
    \/ \E w \in Reconcilers : Reread(w) /\ ReconOnly
    \/ \E w \in Reconcilers : CacheSet(w) /\ ReconOnly
    \/ \E w \in Reconcilers : Return(w) /\ ReconOnly

LifeSpec == CreateSpecInit /\ [][LifeNext]_vars

\* The life of a payment with the read handlers served in between, one
\* request at a time.
NoRequestInFlight == creator.pc = "idle" /\ NoneInFlight

CacheNext ==
    \/ \E amount \in Amounts, fee \in AdminFees, userOK \in BOOLEAN,
          product \in ProductAnswers :
          CreateBegin(amount, fee, userOK, product) /\ ReconOnly
    \/ CreateCharge /\ ReconOnly
    \/ CreatePersist /\ ReconOnly
    \/ CreateUpdateMidtransData /\ ReconOnly
    \/ CreateWait /\ ReconOnly
    \/ CreateFinish /\ ReconOnly
    \/ CreateReturn /\ ReconOnly
    \/ \E w \in Reconcilers, req \in CallbackRequests :
          CreateDone /\ NoneInFlight /\ runs < MaxLifeRuns
          /\ BeginCallback(w, req) /\ ReconOnly
    \/ \E w \in Reconcilers, id \in PaymentIDs \cup {"pay404"} :
          CreateDone /\ NoneInFlight /\ runs < MaxLifeRuns
          /\ BeginCheck(w, id) /\ ReconOnly
    \/ \E w \in Reconcilers : FetchStatus(w) /\ ReconOnly
    \/ \E w \in Reconcilers : UpdateStatusStep(w) /\ ReconOnly
    \/ \E w \in Reconcilers : UpdateMidtransDataStep(w) /\ ReconOnly
    \/ \E w \in Reconcilers : InvalidateAndPublish(w) /\ ReconOnly
    \/ \E w \in Reconcilers : Reread(w) /\ ReconOnly
    \/ \E w \in Reconcilers : CacheSet(w) /\ ReconOnly
    \/ \E w \in Reconcilers : Return(w) /\ ReconOnly
    \/ \E id \in PaymentIDs : NoRequestInFlight /\ GetPayment(id) /\ ReconOnly
    \/ \E orderID \in OrderIDs :
          NoRequestInFlight /\ GetPaymentByOrderID(orderID) /\ ReconOnly
    \/ \E userID \in UserIDs, page \in Pages, limit \in Limits :
          NoRequestInFlight /\ GetUserPayments(userID, page, limit) /\ ReconOnly

CacheSpec == CreateSpecInit /\ [][CacheNext]_vars

\* The saga coordinator.
SagaNext ==
    \/ \E id \in SagaPaymentIDs : AddPendingValidation(id) /\ SagaOnly
    \/ \E c \in Consumers, event \in Deliveries :
          HandleValidationResponse(c, event) /\ SagaOnly
    \/ \E c \in Consumers : CheckValidationComplete(c) /\ SagaOnly
    \/ \E c \in Consumers : DispatchCompletion(c) /\ mu' = mu /\ DispatchOnly
    \/ CleanupExpiredValidations /\ SagaOnly
    \/ SagaTick /\ SagaOnly

SagaSpec == Init /\ [][SagaNext]_vars

\* The saga coordinator as Start runs it: one goroutine ranges over the
\* deliveries, so a reply is taken when the one before it has been handled.
\* SagaLiveSpec adds the clock and the ticker: time goes on up to the horizon,
\* and the cleanup goroutine, which only waits for the ticker and for vc.mu,
\* runs its round when the ticker has fired.
NoDeliveryInHand == \A c \in Consumers : consumer[c].pc = "idle"

SagaSeqNext ==
    \/ \E id \in SagaPaymentIDs : AddPendingValidation(id) /\ SagaOnly
    \/ \E c \in Consumers, event \in Deliveries :
          NoDeliveryInHand /\ HandleValidationResponse(c, event) /\ SagaOnly
    \/ \E c \in Consumers : CheckValidationComplete(c) /\ SagaOnly
    \/ \E c \in Consumers : DispatchCompletion(c) /\ mu' = mu /\ DispatchOnly
    \/ CleanupExpiredValidations /\ SagaOnly
    \/ SagaTick /\ SagaOnly

SagaSeqSpec == Init /\ [][SagaSeqNext]_vars

\* The replies that name a payment id the table may hold.
MatchingReplies == {event \in ReplyEvents : event.payment_id \in SagaPaymentIDs}

\* The saga coordinator with a clock of minutes: records are registered and
\* replies for them arrive at any minute between two firings of the ticker.
SweepNext ==
    \/ \E id \in SagaPaymentIDs : AddPendingValidation(id) /\ SagaOnly
    \/ \E c \in Consumers, event \in MatchingReplies :
          NoDeliveryInHand /\ HandleValidationResponse(c, event) /\ SagaOnly
    \/ \E c \in Consumers : CheckValidationComplete(c) /\ SagaOnly
    \/ \E c \in Consumers : DispatchCompletion(c) /\ mu' = mu /\ DispatchOnly
    \/ CleanupExpiredValidations /\ SagaOnly
    \/ SagaMinutes /\ SagaOnly

SweepSpec == Init /\ [][SweepNext]_vars

SagaLiveSpec ==
    /\ Init
    /\ [][SagaSeqNext]_vars
    /\ WF_vars(SagaTick /\ SagaOnly)
    /\ WF_vars(CleanupExpiredValidations /\ SagaOnly)

\* The saga coordinator with its mutex: every section between vc.mu.Lock()
\* and vc.mu.Unlock() is taken by the goroutine that holds vc.mu and ends
\* with the unlock; the deliveries are handled one at a time.
LockNext ==
    \/ \E g \in Goroutines : LockMu(g) /\ OtherThanSaga
    \/ \E id \in SagaPaymentIDs :
          mu = "add" /\ AddPendingValidation(id) /\ mu' = "free" /\ OtherThanSaga
    \/ \E c \in Consumers, event \in Deliveries :
          /\ ReachesLock(event) /\ mu = c
          /\ HandleValidationResponse(c, event) /\ mu' = "free" /\ OtherThanSaga
    \/ \E c \in Consumers, event \in Deliveries :
          /\ ~ReachesLock(event) /\ NoDeliveryInHand /\ mu # c
          /\ HandleValidationResponse(c, event) /\ mu' = mu /\ OtherThanSaga
    \/ \E c \in Consumers :
          /\ mu = c /\ CheckValidationComplete(c) /\ OtherThanSaga
          /\ mu' = IF consumer'[c].pc = "dispatch" THEN UnlockAfterRemoval(c)
                                                    ELSE "free"
    \/ \E c \in Consumers : DispatchCompletion(c) /\ mu' = mu /\ DispatchOnly
    \/ mu = "sweep" /\ CleanupExpiredValidations /\ mu' = "free" /\ OtherThanSaga
    \/ SagaTick /\ mu' = mu /\ OtherThanSaga

LockSpec == Init /\ [][LockNext]_vars

\* The gateway client: calls of charge and GetPaymentStatus, one at a time.
GatewayNext ==
    \/ \E fn \in GatewayCalls : GatewayCall(fn)
    \/ \E o \in HttpOutcomes : GatewayAttempt(o)

GatewaySpec == Init /\ [][GatewayNext]_vars

\* CreatePayment calls served concurrently, charging the gateway.
ChargeNext ==
    \/ ClockAdvance
    \/ \E c \in PaymentCalls : BeginPayment(c)
    \/ \E c \in PaymentCalls, o \in HttpOutcomes, reached \in BOOLEAN :
          ChargeAttempt(c, o, reached)

ChargeSpec == Init /\ [][ChargeNext]_vars

OtherDomainsUnchanged == UNCHANGED <<reconVars, sagaVars, gatewayVars, waitVars, readVars>>

\* The worker pool.  main starts the pool and sets its handlers before the
\* server takes requests, and stops the pool when it returns.
PoolNext ==
    \/ \E r \in RequestIDs : HandlersSet /\ SubmitRequest(r) /\ PoolOnly
    \/ UpdateWorkerPoolHandlers /\ OtherDomainsUnchanged
    \/ \E r \in RequestIDs : CountJob(r) /\ PoolOnly
    \/ \E r \in RequestIDs : CancelRequest(r) /\ PoolOnly
    \/ Start /\ PoolOnly
    \/ \E w \in WorkerIDs : Dequeue(w) /\ PoolOnly
    \/ \E w \in WorkerIDs : WorkerExit(w) /\ PoolOnly
    \/ \E w \in WorkerIDs : CheckCancelled(w) /\ PoolOnly
    \/ \E w \in WorkerIDs : RunHandler(w) /\ PoolOnly
    \/ \E w \in WorkerIDs : SendResponse(w) /\ PoolOnly
    \/ \E w \in WorkerIDs : DecrementActiveJobs(w) /\ PoolOnly
    \/ HandlersSet /\ StopCancel /\ PoolOnly
    \/ StopClose /\ PoolOnly
    \/ StopWait /\ PoolOnly

PoolSpec == Init /\ [][PoolNext]_vars

\* The worker pool with callers that make the reply channel with or without
\* a buffer and do not read from it.
ReplyNext ==
    \/ \E r \in RequestIDs, cap \in ReplyCapacities :
          HandlersSet /\ SubmitRequestOf(r, "get_products", cap) /\ PoolOnly
    \/ UpdateWorkerPoolHandlers /\ OtherDomainsUnchanged
    \/ \E r \in RequestIDs : CountJob(r) /\ PoolOnly
    \/ \E r \in RequestIDs : CancelRequest(r) /\ PoolOnly
    \/ Start /\ PoolOnly
    \/ \E w \in WorkerIDs : Dequeue(w) /\ PoolOnly
    \/ \E w \in WorkerIDs : WorkerExit(w) /\ PoolOnly
    \/ \E w \in WorkerIDs : CheckCancelled(w) /\ PoolOnly
    \/ \E w \in WorkerIDs : RunHandler(w) /\ PoolOnly
    \/ \E w \in WorkerIDs : SendResponse(w) /\ PoolOnly
    \/ \E w \in WorkerIDs : DecrementActiveJobs(w) /\ PoolOnly
    \/ HandlersSet /\ StopCancel /\ PoolOnly
    \/ StopClose /\ PoolOnly
    \/ StopWait /\ PoolOnly

\* A step of the goroutine of worker w.
WorkerStep(w) ==
    \/ Dequeue(w)
    \/ WorkerExit(w)
    \/ CheckCancelled(w)
    \/ RunHandler(w)
    \/ SendResponse(w)
    \/ DecrementActiveJobs(w)

\* ReplyNext where the scheduler runs every goroutine that can take a step:
\* the workers, whose handlers return, and the goroutine inside Stop.
ReplyLiveSpec ==
    /\ Init
    /\ [][ReplyNext]_vars
    /\ \A w \in WorkerIDs : WF_vars(WorkerStep(w) /\ PoolOnly)
    /\ WF_vars(StopClose /\ PoolOnly)
    /\ WF_vars(StopWait /\ PoolOnly)

\* No request is in the queue or with a worker.
PoolQuiet ==
    /\ Len(requestCh) = 0
    /\ \A w \in WorkerIDs : worker[w].pc \in {"off", "idle", "exited"}
    /\ \A r \in RequestIDs : reqs[r].st # "sent"

\* The worker pool in service, between Start and Stop, as a component:
\* requests of any type, one at a time, which may come before the handlers
\* are set.
TypeNext ==
    \/ \E r \in RequestIDs, type \in RequestTypes :
          /\ Started /\ PoolQuiet
          /\ SubmitRequestOf(r, type, ReplyCapacity) /\ PoolOnly
    \/ UpdateWorkerPoolHandlers /\ OtherDomainsUnchanged
    \/ \E r \in RequestIDs : CountJob(r) /\ PoolOnly
    \/ \E r \in RequestIDs : CancelRequest(r) /\ PoolOnly
    \/ Start /\ PoolOnly
    \/ \E w \in WorkerIDs : Dequeue(w) /\ PoolOnly
    \/ \E w \in WorkerIDs : CheckCancelled(w) /\ PoolOnly
    \/ \E w \in WorkerIDs : RunHandler(w) /\ PoolOnly
    \/ \E w \in WorkerIDs : SendResponse(w) /\ PoolOnly
    \/ \E w \in WorkerIDs : DecrementActiveJobs(w) /\ PoolOnly

TypeSpec == Init /\ [][TypeNext]_vars

-----------------------------------------------------------------------------
(* Properties of the reconciliation engine *)

LifecycleEventTypes == EventTypes \ {"payment.created"}

\* A handler that has finished its work and is about to return.
Responding(w) == proc[w].pc = "respond"

\* C1: once the stored status of a payment is SUCCESS, FAILED, CANCELLED or
\* EXPIRED, no step of any reconciliation changes the stored status.
C1_TerminalStatusNeverChanges ==
    [][\A id \in PaymentIDs :
          payments[id].Status \in TerminalStatuses
             => payments'[id].Status = payments[id].Status]_vars

\* C3: when a reconciliation of a payment is followed by another one for which
\* the gateway reports the same transaction status, the two together make at
\* most one Publish* call for each lifecycle event type.
C3_SequentialSameStatusPublishesOnce ==
    \A w \in Reconcilers :
       (/\ Responding(w)
        /\ proc[w].statusResp # NoStatusResp
        /\ lastRun[proc[w].id].valid
        /\ lastRun[proc[w].id].TransactionStatus = proc[w].statusResp.TransactionStatus)
       => \A t \in LifecycleEventTypes :
             lastRun[proc[w].id].pub[t] + proc[w].pub[t] <= 1

\* C3 witness: a second reconciliation with the same gateway status has run
\* to its 200 after a first one that published payment.success.
C3_Witness ==
    \E w \in Reconcilers :
       /\ Responding(w) /\ proc[w].resp = 200
       /\ proc[w].statusResp # NoStatusResp
       /\ lastRun[proc[w].id].valid
       /\ lastRun[proc[w].id].TransactionStatus = proc[w].statusResp.TransactionStatus
       /\ lastRun[proc[w].id].pub["payment.success"] = 1
       /\ proc[w].pub = NoEvents

\* C4: two reconciliations of one payment that are in flight together and got
\* the same transaction status from the gateway make, between them, at most
\* one Publish* call for each lifecycle event type.
C4_ConcurrentSameStatusPublishesOnce ==
    \A w1, w2 \in Reconcilers :
       (/\ w1 # w2
        /\ proc[w1].id # NilUUID /\ proc[w1].id = proc[w2].id
        /\ proc[w1].statusResp # NoStatusResp
        /\ proc[w1].statusResp.TransactionStatus = proc[w2].statusResp.TransactionStatus)
       => \A t \in LifecycleEventTypes : proc[w1].pub[t] + proc[w2].pub[t] <= 1

\* A reconciliation that loaded the payment as PENDING with a product id, got
\* a status that maps to SUCCESS, and stored it.
MovedPendingToSuccess(p) ==
    /\ p.updated
    /\ p.payment.Status = PaymentStatusPending
    /\ p.payment.ProductID # NilUUID
    /\ p.statusResp.TransactionStatus \in {"settlement", "capture"}

\* C6: when a reconciliation that moved a PENDING payment with a product id
\* to SUCCESS is about to return, the stored status is SUCCESS, paid_at is
\* set, and the handler has made exactly one PublishPaymentSuccess and one
\* PublishProductStockReduced call.
C6_SettlementStoresAndPublishesOnce ==
    \A w \in Reconcilers :
       (Responding(w) /\ MovedPendingToSuccess(proc[w]))
       => /\ payments[proc[w].id].Status = PaymentStatusSuccess
          /\ payments[proc[w].id].PaidAt # NoTime
          /\ proc[w].pub["payment.success"] = 1
          /\ proc[w].pub["product.stock.reduced"] = 1

\* C6 witness: a webhook has taken the payment from PENDING to SUCCESS and is
\* about to answer 200.
C6_Witness ==
    \E w \in Reconcilers :
       /\ Responding(w) /\ MovedPendingToSuccess(proc[w])
       /\ proc[w].kind = "callback" /\ proc[w].resp = 200
       /\ published[proc[w].id]["product.stock.reduced"] = 1

\* C7: a payment row exists only after a successful charge; after a failed
\* charge there is no row for the order, no cache entry and no
\* payment.created event.
C7_PersistOnlyAfterCharge ==
    /\ \A id \in PaymentIDs : payments[id].exists => creator.charge = "ok"
    /\ creator.charge = "failed"
         => /\ \A id \in PaymentIDs : ~payments[id].exists
            /\ cache = NoCache
            /\ \A id \in PaymentIDs : published[id]["payment.created"] = 0

\* C7 witness: CreatePayment has returned after a failed charge.
C7_Witness ==
    /\ creator.charge = "failed"
    /\ creator.pc = "idle"
    /\ creator.resp \in {503, 400}

\* The callback's signature differs from the SHA-512 hex digest of
\* order id + status code + gross amount + server key.
BadSignature(req) ==
    req.SignatureKey # Sha512Hex(req.OrderID \o req.StatusCode \o req.GrossAmount
                                 \o ServerKey)

\* C8: a webhook with a bad signature is answered 400 without a gateway status
\* having been fetched, and no step of its handler changes the payment rows,
\* the caches or the published events.
C8_BadSignatureRejected ==
    [][\A w \in Reconcilers :
          /\ (proc'[w].kind = "callback" /\ BadSignature(proc'[w].req))
                => /\ proc'[w].pc = "respond"
                   /\ proc'[w].resp = 400
                   /\ proc'[w].statusResp = NoStatusResp
          /\ (/\ proc'[w] # proc[w]
               /\ \/ proc'[w].kind = "callback" /\ BadSignature(proc'[w].req)
                  \/ proc[w].kind = "callback" /\ BadSignature(proc[w].req))
                => /\ payments' = payments
                   /\ cache' = cache
                   /\ published' = published]_vars

\* C8 witness: a webhook for an existing order, signed without the server
\* key, has been rejected.
C8_Witness ==
    \E w \in Reconcilers :
       /\ proc[w].kind = "callback"
       /\ proc[w].req.OrderID = "Order_1"
       /\ proc[w].req.SignatureKey =
             Sha512Hex(proc[w].req.OrderID \o proc[w].req.StatusCode
                       \o proc[w].req.GrossAmount)
       /\ Responding(w) /\ proc[w].resp = 400

-----------------------------------------------------------------------------
(* Properties of the saga coordinator *)

\* No goroutine is between recording a reply for the payment id and the end
\* of checkValidationComplete.
NoReplyInHand(paymentID) ==
    \A c \in Consumers : consumer[c].pc = "idle" \/ consumer[c].paymentID # paymentID

Dispatches(h) == h.completed + h.failed

\* C2: for every registered PendingValidation, handleValidationSuccess and
\* handleValidationFailure are called at most once in total, and exactly once
\* when a product reply and a user reply have both been recorded for it, in
\* whatever order or overlap, and their handlers have finished (the record
\* having been neither swept nor overwritten meanwhile).
C2_CompletionDispatchedExactlyOnce ==
    \A g \in DOMAIN registrations :
       LET h == registrations[g] IN
       /\ Dispatches(h) <= 1
       /\ (/\ h.productRecorded /\ h.userRecorded
           /\ h.fate \notin {"evicted", "replaced"}
           /\ NoReplyInHand(h.PaymentID))
          => Dispatches(h) = 1

\* C2 witness: both replies were recorded for a registration, every handler
\* has finished, and one completion was dispatched.
C2_Witness ==
    \E g \in DOMAIN registrations :
       /\ registrations[g].productRecorded /\ registrations[g].userRecorded
       /\ registrations[g].fate = "completed"
       /\ Dispatches(registrations[g]) = 1
       /\ \A c \in Consumers : consumer[c].pc = "idle"

\* C5: a completion dispatched for a registration went to
\* handleValidationSuccess exactly when the recorded product status is
\* PRODUCT_OK and the recorded user status is USER_OK, and to
\* handleValidationFailure exactly when they are any other pair.
C5_SuccessIffBothOK ==
    \A g \in DOMAIN registrations :
       LET h == registrations[g]
           bothOK == h.ProductStatus = "PRODUCT_OK" /\ h.UserStatus = "USER_OK"
       IN  Dispatches(h) >= 1
           => /\ h.completed >= 1 <=> bothOK
              /\ h.failed >= 1 <=> ~bothOK

\* C5 witness: OUT_OF_STOCK and USER_OK were recorded and the order failed.
C5_Witness ==
    \E g \in DOMAIN registrations :
       /\ registrations[g].ProductStatus = "OUT_OF_STOCK"
       /\ registrations[g].UserStatus = "USER_OK"
       /\ registrations[g].failed = 1
       /\ registrations[g].completed = 0

-----------------------------------------------------------------------------
(* Properties of the worker pool *)

\* The caller whose turn it is to call SubmitRequest.
NextToSubmit(r) ==
    /\ Started
    /\ reqs[r].st = "new"
    /\ IF r = 1 THEN TRUE ELSE reqs[r - 1].st \notin {"new", "sent"}

StopBegun == poolCtxDone \/ chClosed

\* C9 as amended: SubmitRequest never waits; while Stop has not begun, a call
\* that finds workers*2 requests queued returns "pool is full", whatever the
\* workers are doing; and the queue never holds more than workers*2
\* requests.
C9_FullQueueRejectsUntilStop ==
    /\ Len(requestCh) <= Workers * QueueMultiplier
    /\ \A r \in RequestIDs : NextToSubmit(r) => ENABLED SubmitRequest(r)
    /\ (Len(requestCh) = Workers * QueueMultiplier /\ ~StopBegun)
         => SubmitOutcomes(requestCh, chClosed, poolCtxDone) = {"full"}
    /\ \A r \in RequestIDs :
          (reqs[r].st # "new" /\ reqs[r].sawFull /\ ~reqs[r].sawStop)
             => reqs[r].st = "full"

\* C9 witness: a call found the queue full before any Stop and was rejected
\* with "pool is full".
C9_Witness ==
    \E r \in RequestIDs :
       reqs[r].st = "full" /\ reqs[r].sawFull /\ ~reqs[r].sawStop

\* C9 as stated: every call that finds workers*2 requests queued returns
\* "pool is full".
C9_FullQueueAlwaysRejectsAsFull ==
    \A r \in RequestIDs :
       (reqs[r].st # "new" /\ reqs[r].sawFull) => reqs[r].st = "full"

Replies(r) == Len(reqs[r].Response)

\* C10 as amended: a worker writes at most one Response for a request it
\* dequeued; when it has finished with the request it has written exactly
\* one, unless the request's context was cancelled after the check at the
\* start of processRequest and the final select took the cancellation.
C10_OneReplyUnlessCancelledMeanwhile ==
    \A r \in RequestIDs :
       /\ Replies(r) <= 1
       /\ reqs[r].finished
            => \/ Replies(r) = 1
               \/ reqs[r].ctxDone /\ reqs[r].path = "abandoned"
       /\ reqs[r].path = "cancelled"
            => Replies(r) = 1 /\ reqs[r].Response[1] = "request context cancelled"

\* C10 witness: a request whose context was never cancelled and one that was
\* cancelled before its handler ran have both been answered once.
C10_Witness ==
    \E r1, r2 \in RequestIDs :
       /\ reqs[r1].finished /\ ~reqs[r1].ctxDone /\ Replies(r1) = 1
       /\ reqs[r2].finished /\ reqs[r2].path = "cancelled" /\ Replies(r2) = 1

\* C10 as stated: a worker that has finished with a request has written
\* exactly one Response for it.
C10_ExactlyOneReplyAlways ==
    \A r \in RequestIDs : reqs[r].finished => Replies(r) = 1

\* C11: a SubmitRequest call made once Stop has begun (the pool context is
\* cancelled or the request channel closed) ends with the "shutting down"
\* rejection: it neither enqueues the request nor panics.
C11_SubmitAfterStopIsRejected ==
    \A r \in RequestIDs :
       (reqs[r].st # "new" /\ reqs[r].sawStop) => reqs[r].st = "shutdown"

-----------------------------------------------------------------------------
(* Properties of the saga coordinator's sweep *)

\* The last instant of the model's clock.
SagaHorizon == MaxTicks * SweepIntervalMinutes

\* The record of registration g is in the correlation table.
InTable(g) ==
    \E id \in SagaPaymentIDs :
       pendingValidations[id].exists /\ pendingValidations[id].gen = g

\* The record of registration g is in the table and was created early enough
\* for the clock to reach the sweep that follows its timeout.
InTableWithTimeLeft(g) ==
    \E id \in SagaPaymentIDs :
       /\ pendingValidations[id].exists /\ pendingValidations[id].gen = g
       /\ pendingValidations[id].CreatedAt + ExpiryMinutes + SweepIntervalMinutes
             <= SagaHorizon

\* C12: no record stays in the correlation table for longer than the timeout
\* plus one sweep interval, whatever replies arrive or fail to arrive, and
\* every record is eventually removed from the table.
C12_PendingEventuallyRemoved ==
    /\ [](\A id \in SagaPaymentIDs :
            pendingValidations[id].exists
               => sagaNow - pendingValidations[id].CreatedAt
                     <= ExpiryMinutes + SweepIntervalMinutes)
    /\ \A g \in 1..MaxRegistrations : InTableWithTimeLeft(g) ~> ~InTable(g)

\* C12 witness: the sweep has evicted a record for which only the product
\* reply ever arrived.
C12_Witness ==
    \E g \in DOMAIN registrations :
       /\ registrations[g].fate = "evicted"
       /\ registrations[g].productRecorded /\ ~registrations[g].userRecorded
       /\ ~InTable(g)

-----------------------------------------------------------------------------
(* Properties of the saga coordinator's handling of unmatched replies *)

\* A product or user reply whose payment id has no record in the table.
UnmatchedReply(event) ==
    /\ event.Type \in {"product.validation.response", "user.validation.response"}
    /\ \/ event.payment_id \notin SagaPaymentIDs
       \/ ~pendingValidations[event.payment_id].exists

\* C13: the handling of a product or user reply whose payment id has no
\* PendingValidation leaves the correlation table as it was, creates no
\* record, dispatches no completion or failure, and ends with msg.Ack.
C13_UnmatchedReplyDiscarded ==
    [][\A c \in Consumers, event \in ReplyEvents :
          (UnmatchedReply(event) /\ HandleValidationResponse(c, event))
             => /\ pendingValidations' = pendingValidations
                /\ registrations' = registrations
                /\ consumer' = consumer
                /\ lastDelivery'.call = "Ack"]_vars

\* C13 witness: a reply for a payment whose validation had already completed
\* found no record and was acknowledged.
C13_Witness ==
    /\ lastDelivery = Acked("No pending validation found")
    /\ \E g \in DOMAIN registrations :
          registrations[g].fate = "completed" /\ Dispatches(registrations[g]) = 1
    /\ \A id \in SagaPaymentIDs : ~pendingValidations[id].exists

\* The registrations of a payment id whose record is in the table.
LiveRegistrations(id) ==
    {g \in DOMAIN registrations :
        registrations[g].PaymentID = id /\ registrations[g].fate = "live"}

\* C14: of the records registered for a payment id at most one is in the
\* correlation table, namely the one registered last; and the flags and
\* statuses of the record in the table are exactly the replies recorded since
\* that registration, so a record that replaces another starts with both
\* flags unset and inherits nothing.
C14_OneFreshRecordPerPaymentID ==
    \A id \in SagaPaymentIDs :
       /\ Cardinality(LiveRegistrations(id)) <= 1
       /\ pendingValidations[id].exists <=> LiveRegistrations(id) # {}
       /\ pendingValidations[id].exists
            => LET g == pendingValidations[id].gen
                   h == registrations[g]
               IN  /\ LiveRegistrations(id) = {g}
                   /\ \A k \in DOMAIN registrations :
                         registrations[k].PaymentID = id => k <= g
                   /\ pendingValidations[id].ProductValidated = h.productRecorded
                   /\ pendingValidations[id].UserValidated = h.userRecorded
                   /\ pendingValidations[id].ProductStatus = h.ProductStatus
                   /\ pendingValidations[id].UserStatus = h.UserStatus

\* C14 witness: a record for which the product reply had been recorded was
\* replaced, and the record now in the table has both flags unset.
C14_Witness ==
    \E id \in SagaPaymentIDs, g \in DOMAIN registrations :
       /\ registrations[g].PaymentID = id
       /\ registrations[g].fate = "replaced" /\ registrations[g].productRecorded
       /\ pendingValidations[id].exists /\ pendingValidations[id].gen > g
       /\ ~pendingValidations[id].ProductValidated
       /\ ~pendingValidations[id].UserValidated

-----------------------------------------------------------------------------
(* Properties of the status mapping *)

\* The mapping as the payment lifecycle defines it.
StatusOfGatewayString(s) ==
    IF s \in {"settlement", "capture"} THEN "SUCCESS"
    ELSE IF s = "deny" THEN "FAILED"
    ELSE IF s = "cancel" THEN "CANCELLED"
    ELSE IF s = "expire" THEN "EXPIRED"
    ELSE "PENDING"

\* C15: MapMidtransStatusToPaymentStatus yields one of the five statuses for
\* every gateway string: SUCCESS for settlement and capture, FAILED for deny,
\* CANCELLED for cancel, EXPIRED for expire, PENDING for pending and for any
\* other string; so does every handler that has mapped the status it fetched,
\* and the status it stores is the mapped one.
C15_StatusMappingTotal ==
    /\ \A s \in GatewayStatuses :
          /\ MapMidtransStatusToPaymentStatus(s) \in PaymentStatuses
          /\ MapMidtransStatusToPaymentStatus(s) = StatusOfGatewayString(s)
    /\ \A w \in Reconcilers :
          proc[w].statusResp # NoStatusResp
             => /\ newStatusOf(proc[w]) \in PaymentStatuses
                /\ newStatusOf(proc[w])
                      = StatusOfGatewayString(proc[w].statusResp.TransactionStatus)
                /\ proc[w].pc = "midtrans"
                      => payments[proc[w].id].Status = newStatusOf(proc[w])
    /\ \A id \in PaymentIDs : payments[id].Status \in PaymentStatuses

\* C15 witness: a handler was told "SETTLEMENT", a string the mapper has no
\* case for, and has stored PENDING.
C15_Witness ==
    \E w \in Reconcilers :
       /\ proc[w].pc = "midtrans"
       /\ proc[w].statusResp.TransactionStatus = "SETTLEMENT"
       /\ payments[proc[w].id].Status = PaymentStatusPending

-----------------------------------------------------------------------------
(* Properties of the gateway client *)

RetryableOutcomes == {"5xx", "429", "conn_error"}

\* The outcomes after which the claim has the call end with an error at once.
FatalOutcomes(fn) == {"4xx"} \cup (IF fn = "charge" THEN {"200_body_error"} ELSE {})

\* C16: a call of charge or GetPaymentStatus makes at most 4 HTTP attempts;
\* every attempt but the last one ended in a 5xx, a 429 or a connection-level
\* failure; and an attempt that ends in another non-200 status, or for charge
\* in a 200 whose body carries an error status code, is the call's last and
\* the call returns an error.
C16_BoundedRetryOnlyOnRetryable ==
    LET n == Len(http.outcomes) IN
    /\ n <= 4
    /\ \A i \in 1..n :
          i < n => http.outcomes[i] \in RetryableOutcomes
    /\ (n > 0 /\ http.pc = "in loop") => http.outcomes[n] \in RetryableOutcomes
    /\ (n > 0 /\ http.outcomes[n] \in FatalOutcomes(http.fn))
          => http.pc = "returned" /\ http.result = "return error"
    /\ (n = 4 /\ http.outcomes[n] \in RetryableOutcomes)
          => http.pc = "returned" /\ http.result = "return error"

\* C16 witness: GetPaymentStatus has given up after four attempts, and so the
\* fourth was a retryable failure too.
C16_Witness ==
    /\ http.fn = "GetPaymentStatus"
    /\ http.pc = "returned" /\ http.result = "return error"
    /\ Len(http.outcomes) = 4
    /\ http.outcomes[4] = "429"

-----------------------------------------------------------------------------
(* Properties of the order ids *)

\* C17: every charge request of a CreatePayment call carries that call's
\* order id, two CreatePayment calls never have the same order id, and the
\* gateway holds at most one charge per order id.
C17_OneOrderIDPerCall ==
    /\ \A c \in PaymentCalls : calls[c].carried \subseteq {calls[c].orderID}
    /\ \A c1, c2 \in PaymentCalls :
          (c1 # c2 /\ calls[c1].pc # "idle" /\ calls[c2].pc # "idle")
             => calls[c1].orderID # calls[c2].orderID
    /\ \A id \in DOMAIN ledger : ledger[id].charges <= 1

-----------------------------------------------------------------------------
(* Properties of the money fields *)

\* C18: every payment row has total_amount = amount + admin_fee, from its
\* creation on and through every status update and Midtrans-data update, and
\* the gross amount of the charge request is that sum.
C18_TotalIsAmountPlusFee ==
    /\ \A id \in PaymentIDs :
          payments[id].exists
             => /\ payments[id].TotalAmount = payments[id].Amount + payments[id].AdminFee
                /\ creator.chargeReq.GrossAmount = payments[id].TotalAmount
    /\ creator.chargeReq # NoChargeRequest
          => creator.chargeReq.GrossAmount
                = creator.payment.Amount + creator.payment.AdminFee

\* C18 witness: the payment of amount 100000 and fee 2500 was charged and
\* stored with total 102500, and a reconciliation has since written status
\* and Midtrans data over the row.
C18_Witness ==
    \E id \in PaymentIDs :
       /\ payments[id].exists
       /\ payments[id].Amount = 100000 /\ payments[id].AdminFee = 2500
       /\ payments[id].TotalAmount = 102500
       /\ creator.chargeReq.GrossAmount = 102500
       /\ payments[id].Status = PaymentStatusSuccess
       /\ payments[id].TransactionStatus = "settlement"

-----------------------------------------------------------------------------
(* Properties of the reconciliation engine's error paths *)

\* The request of handler record p names a payment that has no row: a
\* webhook, signature verified, for an order id no row carries, or a manual
\* check of a payment id no row carries.
NoRowFor(p) ==
    \/ /\ p.kind = "callback"
       /\ ~BadSignature(p.req)
       /\ \A id \in PaymentIDs :
             ~(payments[id].exists /\ payments[id].OrderID = p.req.OrderID)
    \/ /\ p.kind = "check"
       /\ \A id \in PaymentIDs : ~(payments[id].exists /\ id = p.req.OrderID)

StoreCacheAndEventsUnchanged ==
    payments' = payments /\ cache' = cache /\ published' = published

\* C19: a webhook (its signature verified) or a manual check that names a
\* payment without a row is answered 404 without a gateway status having
\* been fetched, and no step of its handler changes the payment rows, the
\* caches or the published events.
C19_NotFoundEndsReconciliation ==
    [][\A w \in Reconcilers :
          /\ (proc[w].pc = "idle" /\ proc'[w].pc # "idle" /\ NoRowFor(proc'[w]))
                => /\ proc'[w].pc = "respond"
                   /\ proc'[w].resp = 404
                   /\ proc'[w].statusResp = NoStatusResp
                   /\ StoreCacheAndEventsUnchanged
          /\ (proc[w].pc # "idle" /\ NoRowFor(proc[w]) /\ proc'[w] # proc[w])
                => /\ proc'[w] = IdleProc
                   /\ StoreCacheAndEventsUnchanged]_vars

\* C19 witness: a correctly signed webhook for Order_1, whose charge had
\* failed so that no row was stored, has been answered 404.
C19_Witness ==
    \E w \in Reconcilers :
       /\ proc[w].kind = "callback" /\ proc[w].req.OrderID = "Order_1"
       /\ NoRowFor(proc[w])
       /\ creator.charge = "failed"
       /\ Responding(w) /\ proc[w].resp = 404

\* The handler of record p is at the fetch of the gateway status or has come
\* away from it without one.
WithoutGatewayStatus(p) ==
    /\ p.id # NilUUID
    /\ p.statusResp = NoStatusResp
    /\ p.pc \in {"fetch", "respond"}

\* C20: a handler whose GetPaymentStatus calls have all failed answers with an
\* error status (500), and neither the fetch nor any later step of the handler
\* changes the payment rows, the caches or the published events.
C20_FetchFailureChangesNothing ==
    [][\A w \in Reconcilers :
          (WithoutGatewayStatus(proc[w]) /\ proc'[w] # proc[w]
             /\ proc'[w].statusResp = NoStatusResp)
             => /\ StoreCacheAndEventsUnchanged
                /\ proc[w].pc = "fetch"
                      => proc'[w].pc = "respond" /\ proc'[w].resp >= 500
                /\ proc[w].pc = "respond"
                      => proc[w].resp >= 500 /\ proc'[w] = IdleProc]_vars

\* C20 witness: a webhook whose three GetPaymentStatus calls failed is about
\* to answer 500, and the row and the events are as CreatePayment left them.
C20_Witness ==
    \E w \in Reconcilers :
       /\ proc[w].kind = "callback" /\ proc[w].id # NilUUID
       /\ proc[w].statusResp = NoStatusResp
       /\ Responding(w) /\ proc[w].resp = 500
       /\ payments[proc[w].id] = CreatedPayment
       /\ published[proc[w].id] = [NoEvents EXCEPT !["payment.created"] = 1]

-----------------------------------------------------------------------------
(* Properties of the events of a status change *)

FailureStatuses == {PaymentStatusFailed, PaymentStatusCancelled, PaymentStatusExpired}

\* The handler of record p has stored a status and come past its publish
\* block.
PastPublish(p) == p.updated /\ p.pc \in {"reread", "cacheset", "respond"}

\* The handler of record p has changed the status of its payment.
ChangedStatus(p) == PastPublish(p) /\ newStatusOf(p) # oldStatusOf(p)

\* C21: a reconciliation that changed the status has made one
\* PublishPaymentStatusUpdated call, whose event carries the status the
\* payment had and the status it has now; when the new status is FAILED,
\* CANCELLED or EXPIRED it has made one PublishPaymentFailed call and no
\* PublishPaymentSuccess or PublishStockReduction call; when the new status is
\* SUCCESS it has made no PublishPaymentFailed call.
C21_EventsFollowNewStatus ==
    \A w \in Reconcilers :
       ChangedStatus(proc[w])
       => LET p == proc[w] IN
          /\ p.pub["payment.status.updated"] = 1
          /\ p.statusUpdated.OldStatus = p.payment.Status
          /\ p.statusUpdated.NewStatus = payments[p.id].Status
          /\ p.statusUpdated.OldStatus # p.statusUpdated.NewStatus
          /\ payments[p.id].Status \in FailureStatuses
                => /\ p.pub["payment.failed"] = 1
                   /\ p.pub["payment.success"] = 0
                   /\ p.pub["product.stock.reduced"] = 0
          /\ payments[p.id].Status = PaymentStatusSuccess
                => p.pub["payment.failed"] = 0

\* C21 witness: a manual check has taken the payment from PENDING to EXPIRED
\* and published payment.status.updated and payment.failed.
C21_Witness ==
    \E w \in Reconcilers :
       /\ proc[w].kind = "check" /\ ChangedStatus(proc[w])
       /\ Responding(w) /\ proc[w].resp = 200
       /\ proc[w].statusUpdated =
             [OldStatus |-> PaymentStatusPending, NewStatus |-> PaymentStatusExpired]
       /\ published[proc[w].id]["payment.failed"] = 1

-----------------------------------------------------------------------------
(* Properties of the product checks of CreatePayment *)

\* The product service answered with a product that is inactive or has no
\* stock.
InactiveOrOutOfStock(product) ==
    product.found /\ (~product.IsActive \/ product.Stock <= 0)

\* C22: when the product CreatePayment looked up is inactive or its stock is
\* zero or less, the request is answered 400, no charge request is built or
\* sent, no payment row is created, nothing is cached and no event is
\* published.
C22_UnavailableProductRejected ==
    InactiveOrOutOfStock(creator.product)
    => /\ creator.pc \in {"respond", "idle"}
       /\ creator.resp = 400
       /\ creator.charge = "none"
       /\ creator.chargeReq = NoChargeRequest
       /\ \A id \in PaymentIDs : ~payments[id].exists
       /\ \A id \in PaymentIDs : published[id] = NoEvents
       /\ cache = NoCache

\* C22 witness: CreatePayment has returned 400 for an active product whose
\* stock is 0.
C22_Witness ==
    /\ creator.product.found /\ creator.product.IsActive
    /\ creator.product.Stock = 0
    /\ creator.started /\ creator.pc = "idle"
    /\ creator.resp = 400

-----------------------------------------------------------------------------
(* Properties of the cache *)

\* The keys under which the read handlers cache the payment lists of a user.
ListKeysOf(userID) ==
    {UserPaymentsKey(ListCacheKey(userID, pg, l)) : pg \in Pages, l \in Limits}

\* The keys that hold a payment: by id, by order id, and the lists of its
\* user.
KeysOfPayment(id, payment) ==
    {PaymentKey(id), PaymentByOrderIDKey(payment.OrderID)}
    \cup ListKeysOf(payment.UserID)

\* C23: the step in which a reconciliation that changes the status makes its
\* cache invalidation leaves no entry under the payment's id, its order id or
\* any list of its user; the step in which a successful CreatePayment makes
\* its cache calls leaves under the payment's id and order id the response it
\* has just built, and no entry under any list of its user.
C23_NoStaleCacheEntry ==
    [][/\ \A w \in Reconcilers :
            (/\ proc[w].pc = "publish" /\ proc'[w].pc # "publish"
             /\ newStatusOf(proc[w]) # oldStatusOf(proc[w]))
            => \A k \in KeysOfPayment(proc[w].id, proc[w].payment) :
                  cache'[k] = CacheMiss
       /\ (creator.pc = "finish" /\ creator'.pc = "respond" /\ creator'.resp = 200)
            => /\ cache'[PaymentKey(creator.id)] = creator.updatedPayment.Status
               /\ cache'[PaymentByOrderIDKey(creator.payment.OrderID)]
                     = creator.updatedPayment.Status
               /\ \A k \in ListKeysOf(creator.payment.UserID) :
                     cache'[k] = CacheMiss]_vars

-----------------------------------------------------------------------------
(* Properties of paid_at *)

\* C24: a payment whose stored status is SUCCESS has a paid_at; and when a
\* reconciliation that stored SUCCESS is about to return and the gateway
\* reported no paid_at, the stored paid_at is a reading of the local clock.
C24_SuccessHasPaidAt ==
    /\ \A id \in PaymentIDs :
          payments[id].Status = PaymentStatusSuccess => payments[id].PaidAt # NoTime
    /\ \A w \in Reconcilers :
          (/\ Responding(w) /\ proc[w].updated
           /\ newStatusOf(proc[w]) = PaymentStatusSuccess
           /\ ~proc[w].statusResp.PaidAtSet)
          => payments[proc[w].id].PaidAt \in Times

\* C24 witness: a manual check has stored SUCCESS for a payment that had no
\* paid_at while the gateway reported none, and the row has a local time.
C24_Witness ==
    \E w \in Reconcilers :
       /\ proc[w].kind = "check" /\ Responding(w) /\ proc[w].resp = 200
       /\ proc[w].updated /\ newStatusOf(proc[w]) = PaymentStatusSuccess
       /\ proc[w].payment.PaidAt = NoTime
       /\ ~proc[w].statusResp.PaidAtSet
       /\ payments[proc[w].id].Status = PaymentStatusSuccess
       /\ payments[proc[w].id].PaidAt \in Times

-----------------------------------------------------------------------------
(* Properties of a reconciliation that finds the status unchanged *)

\* The handler of record p got a status from the gateway that maps to the
\* status it loaded, and is about to answer 200.
UnchangedStatus(p) ==
    /\ p.statusResp # NoStatusResp
    /\ newStatusOf(p) = oldStatusOf(p)
    /\ p.pc = "respond" /\ p.resp = 200

\* C25: a reconciliation, webhook or manual check, that computed the status
\* it had loaded has, when it answers 200, written the transaction status the
\* gateway reported to the row (unless UpdateMidtransData returned an error)
\* and made no Publish* call.
C25_UnchangedStatusStillMergesFields ==
    \A w \in Reconcilers :
       UnchangedStatus(proc[w])
       => /\ proc[w].pub = NoEvents
          /\ proc[w].midtransData # "error"
                => payments[proc[w].id].TransactionStatus
                      = proc[w].statusResp.TransactionStatus

-----------------------------------------------------------------------------
(* Properties of the publish block under failures *)

\* C26: when a handler comes to its cache invalidation and publish block,
\* UpdateStatus has returned and the store holds the new status; the block
\* makes every Publish call there is for the payment, changes no payment
\* row, whatever Del or Publish call fails, and is
\* followed by the 200 of MidtransCallback or by the re-read of
\* CheckPaymentStatus; and a handler that has come past the block with a
\* failed Publish or Del still finds the new status in the store and, if it
\* is a webhook, answers 200.
C26_CommitBeforePublishNoRollback ==
    /\ [](\A w \in Reconcilers :
            (PastPublish(proc[w])
             /\ (proc[w].publishErrors # {} \/ proc[w].delErrors # {}))
            => /\ payments[proc[w].id].Status = newStatusOf(proc[w])
               /\ proc[w].kind = "callback"
                     => proc[w].pc = "respond" /\ proc[w].resp = 200)
    /\ [][\A w \in Reconcilers :
            (proc[w].pc = "publish" /\ proc'[w].pc # "publish")
            => /\ proc[w].updated
               /\ payments[proc[w].id].Status = newStatusOf(proc[w])
               /\ proc[w].pub = NoEvents
               /\ payments' = payments
               /\ IF proc[w].kind = "callback"
                  THEN proc'[w].pc = "respond" /\ proc'[w].resp = 200
                  ELSE proc'[w].pc = "reread"]_vars
    /\ [][\A id \in PaymentIDs :
            published'[id] # published[id]
            => \E w \in Reconcilers :
                  /\ proc[w].pc = "publish" /\ proc[w].id = id /\ proc[w].updated
                  /\ payments[id].Status = newStatusOf(proc[w])
                  /\ payments' = payments]_vars

\* C26 witness: a webhook that moved the payment to SUCCESS is about to answer
\* 200 although its three Publish calls and a Del failed.
C26_Witness ==
    \E w \in Reconcilers :
       /\ proc[w].kind = "callback" /\ ChangedStatus(proc[w])
       /\ proc[w].publishErrors =
             {"payment.status.updated", "payment.success", "product.stock.reduced"}
       /\ proc[w].delErrors # {}
       /\ Responding(w) /\ proc[w].resp = 200
       /\ payments[proc[w].id].Status = PaymentStatusSuccess

-----------------------------------------------------------------------------
(* Properties of the worker pool's processRequest and Stop *)

\* The worker w is inside processRequest for the request r.
Processing(w, r) ==
    worker[w].req = r /\ worker[w].pc \in {"precheck", "handler", "send"}

\* C27: a worker that is in processRequest for a request whose context is
\* cancelled and whose caller does not read the reply channel, whatever the
\* capacity of that channel, gets to the end of processRequest.
C27_WorkerNeverBlocksOnReply ==
    \A w \in WorkerIDs, r \in RequestIDs :
       (Processing(w, r) /\ reqs[r].ctxDone) ~> reqs[r].finished

\* The error responses processRequest makes itself.
ErrorResponses ==
    {"get products handler not set", "get product by id handler not set"}
       \cup {"unknown request type: " \o type : type \in RequestTypes \ HandledTypes}

\* The worker has been through the switch on the type of request r.
Dispatched(r) == reqs[r].response # ""

\* C28: a request found cancelled by the check at the start of processRequest
\* has no handler called and is answered "request context cancelled"; a
\* request of a type without a case, or whose handler field is nil, has no
\* handler called and its response, the one the final select sends, is an
\* error.
C28_NoHandlerForCancelledUnknownOrUnset ==
    /\ [](\A r \in RequestIDs :
            /\ reqs[r].path = "cancelled"
                 => /\ reqs[r].handlerRuns = 0
                    /\ reqs[r].Response = <<"request context cancelled">>
            /\ (Dispatched(r) /\ reqs[r].Type \notin HandledTypes)
                 => /\ reqs[r].handlerRuns = 0
                    /\ reqs[r].response = "unknown request type: " \o reqs[r].Type
            /\ reqs[r].path = "sent" => reqs[r].Response = <<reqs[r].response>>)
    /\ [][\A w \in WorkerIDs, r \in RequestIDs :
            (/\ worker[w].req = r /\ worker[w].pc = "handler"
             /\ worker'[w].pc = "send"
             /\ reqs[r].Type \notin handlers)
               => /\ reqs'[r].handlerRuns = 0
                  /\ reqs'[r].response \in ErrorResponses]_vars

\* C28 witness: one request was answered with the cancellation error, one of
\* a type without a case and one whose handler was not set were answered with
\* their errors, and no handler ran for any of them.
C28_Witness ==
    \E r1, r2, r3 \in RequestIDs :
       /\ reqs[r1].finished /\ reqs[r1].path = "cancelled"
       /\ reqs[r2].finished /\ reqs[r2].path = "sent"
       /\ reqs[r2].Response = <<"unknown request type: delete_product">>
       /\ reqs[r3].finished /\ reqs[r3].path = "sent"
       /\ reqs[r3].Response = <<"get product by id handler not set">>
       /\ \A r \in {r1, r2, r3} : reqs[r].handlerRuns = 0

\* A worker waits at a reply send: the final select of processRequest, or the
\* plain send of the cancellation error.
SendWaits(w) ==
    \/ worker[w].pc = "send"
    \/ worker[w].pc = "precheck" /\ reqs[worker[w].req].ctxDone

\* A reply send in flight can neither complete nor is its request's context
\* cancelled.
SendStuckWithoutCancel ==
    \E w \in WorkerIDs :
       /\ SendWaits(w)
       /\ ~ResponseRoom(worker[w].req)
       /\ ~reqs[worker[w].req].ctxDone

\* C29: Stop returns only when every worker goroutine has returned, and once
\* it has cancelled the pool's context it does return, as long as no reply
\* send in flight is left without room and without a cancelled context (the
\* handlers return in every behaviour of ReplyLiveSpec).
C29_StopTerminatesAfterWorkersExit ==
    /\ [](stopPc = "stopped" => \A w \in WorkerIDs : worker[w].pc = "exited")
    /\ (stopPc = "cancelled") ~> (stopPc = "stopped" \/ SendStuckWithoutCancel)

\* SubmitRequest has put the request r in wp.requestCh and returned nil.
Accepted(r) == reqs[r].st = "accepted"

\* C30: when every worker has returned, every request that SubmitRequest put
\* in the queue has been dequeued and processed by a worker.
C30_NoAcceptedRequestDropped ==
    (\A w \in WorkerIDs : worker[w].pc = "exited")
       => \A r \in RequestIDs : Accepted(r) => reqs[r].finished

-----------------------------------------------------------------------------
(* Properties of the sweep's evictions and of the coordinator's lock *)

\* C31: a round of the sweep dispatches nothing, and for a record the sweep
\* removed neither handleValidationSuccess nor handleValidationFailure is ever
\* called, whether or not a reply had been recorded for it.
C31_EvictionPublishesNothing ==
    /\ [](\A g \in DOMAIN registrations :
            registrations[g].fate = "evicted" => Dispatches(registrations[g]) = 0)
    /\ [][CleanupExpiredValidations
            => \A g \in DOMAIN registrations :
                  /\ registrations'[g].completed = registrations[g].completed
                  /\ registrations'[g].failed = registrations[g].failed]_vars

\* C31 witness: the sweep removed a record for which the user reply had been
\* recorded, the handler of that reply has returned, and nothing was
\* dispatched for the record.
C31_Witness ==
    \E g \in DOMAIN registrations :
       /\ registrations[g].fate = "evicted"
       /\ registrations[g].userRecorded /\ ~registrations[g].productRecorded
       /\ Dispatches(registrations[g]) = 0
       /\ NoDeliveryInHand

\* The record a goroutine holds a pointer to is in the table.
InTheTable(pending) ==
    \E id \in SagaPaymentIDs :
       pendingValidations[id].exists /\ pendingValidations[id].gen = pending.gen

\* C32: the table changes only in steps of the goroutine that holds vc.mu,
\* which unlocks at the end of the step; checkValidationComplete reads the
\* table with vc.mu held; and a goroutine that is about to publish the order
\* completed or order failed event does not hold vc.mu, and the record it
\* publishes for is no longer in the table.
C32_NoPublishUnderLock ==
    /\ [][pendingValidations' # pendingValidations
             => mu # "free" /\ mu' = "free"]_vars
    /\ [][\A c \in Consumers : CheckValidationComplete(c) => mu = c]_vars
    /\ [](\A c \in Consumers :
            consumer[c].pc = "dispatch"
               => mu # c /\ ~InTheTable(consumer[c].pending))

\* C32 witness: the consumer is about to publish while the cleanup goroutine
\* holds the mutex.
C32_Witness ==
    \E c \in Consumers : consumer[c].pc = "dispatch" /\ mu = "sweep"

-----------------------------------------------------------------------------
(* Properties of the saga's failure path *)

\* C33: a dispatch to handleValidationFailure leaves every payment row as it
\* was, so once the order of a registration has been reported failed the
\* payment store is still the one the replies found.
C33_FailurePathKeepsPayments ==
    /\ [][\A c \in Consumers :
            (DispatchCompletion(c) /\ ~BothValidationsOK(consumer[c].pending))
               => payments' = payments]_vars
    /\ []((\E g \in DOMAIN registrations : registrations[g].failed >= 1)
            => payments = [id \in PaymentIDs |-> CreatedPayment])

\* C33 witness: the order of payment pay1 was reported failed after
\* USER_NOT_FOUND and PRODUCT_OK, and the row of pay1 is still PENDING.
C33_Witness ==
    /\ \E g \in DOMAIN registrations :
          /\ registrations[g].PaymentID = "pay1"
          /\ registrations[g].failed = 1
          /\ registrations[g].UserStatus = "USER_NOT_FOUND"
          /\ registrations[g].ProductStatus = "PRODUCT_OK"
    /\ payments["pay1"].exists /\ payments["pay1"].Status = PaymentStatusPending

-----------------------------------------------------------------------------
(* Properties of waitForPaymentData *)

\* The string column holds a value.
NonEmpty(v) == v # NilString /\ v # ""

\* C34: waitForPaymentData reads the store at most five times and has
\* returned after the fifth read; it returns the row only when, for
\* bank_transfer and permata, the row's VA number is non-empty, for cstore,
\* its payment code is non-empty, and for any other method at the first read
\* without error; and when it returned an error CreatePayment goes on with its
\* own payment struct and answers 200.
C34_BoundedWaitThenFallback ==
    /\ [](/\ waiter.reads <= WaitMaxRetries
          /\ waiter.reads = WaitMaxRetries => WaitReturned
          /\ (WaitReturned /\ waiter.err = "")
               => /\ waiter.payment = "row" /\ ~waiter.last.err
                  /\ waiter.method \in {"bank_transfer", "permata"}
                       => NonEmpty(waiter.last.VANumber)
                  /\ waiter.method = "cstore" => NonEmpty(waiter.last.PaymentCode)
          /\ (WaitReturned /\ waiter.err # "" /\ creator.pc \in {"finish", "respond", "idle"})
               => creator.updatedPayment = creator.payment
          /\ (WaitReturned /\ creator.pc \in {"respond", "idle"}) => creator.resp = 200)
    /\ [][(/\ waiter.pc = "loop" /\ waiter'.reads = waiter.reads + 1
           /\ ~waiter'.last.err
           /\ waiter.method \notin {"bank_transfer", "permata", "cstore"})
             => waiter'.pc = "returned" /\ waiter'.err = ""]_vars

\* C34 witness: for a bank_transfer payment the fifth read still showed an
\* empty VA number, waitForPaymentData gave up, and CreatePayment answered 200
\* with its own payment struct.
C34_Witness ==
    /\ WaitReturned /\ waiter.method = "bank_transfer"
    /\ waiter.reads = WaitMaxRetries /\ ~waiter.last.err /\ waiter.last.VANumber = ""
    /\ waiter.err # ""
    /\ creator.pc = "idle" /\ creator.resp = 200
    /\ creator.updatedPayment = creator.payment

-----------------------------------------------------------------------------
(* Properties of the worker pool's counter and of its concurrency *)

\* The requests SubmitRequest has accepted (it has returned nil for them) and
\* no worker has finished.
AcceptedUnfinished == {r \in RequestIDs : Accepted(r) /\ ~reqs[r].finished}

\* C35: wp.activeJobs, which GetActiveJobs returns, is never negative and is
\* the number of requests accepted and not yet finished by a worker.
C35_ActiveJobsCountsUnfinished ==
    /\ activeJobs >= 0
    /\ activeJobs = Cardinality(AcceptedUnfinished)

\* The requests whose handler a worker is executing.
InHandler == {r \in RequestIDs : \E w \in WorkerIDs :
                 worker[w].req = r /\ worker[w].pc = "handler"}

\* C36: the number of requests whose handler is executing is at most the
\* number of workers, and every request that was dequeued and is not yet
\* finished is held by a worker of its own.
C36_AtMostWorkersInHandler ==
    /\ Cardinality(InHandler) <= Workers
    /\ \A r \in RequestIDs :
          (reqs[r].path # "none" /\ ~reqs[r].finished)
             => Cardinality({w \in WorkerIDs : worker[w].req = r}) = 1

\* C36 witness: more requests than workers have been accepted, every worker
\* is in a handler, and a request waits in the queue.
C36_Witness ==
    /\ Cardinality(InHandler) = Workers
    /\ Len(requestCh) > 0
    /\ Cardinality({r \in RequestIDs : Accepted(r)}) > Workers

-----------------------------------------------------------------------------
(* The callback body and the stored outcome *)

\* The rows a reconciliation may store for the row it loaded and the answer
\* of the gateway's status API, by how far it got: UpdateStatus alone, or
\* UpdateStatus and UpdateMidtransData.  The local clock is the only other input.
RowsFromGateway(loaded, statusResp, saved) ==
    LET status == MapMidtransStatusToPaymentStatus(statusResp.TransactionStatus)
    IN  { IF saved
          THEN UpdateMidtransData(UpdateStatus(loaded, status, n1),
                   BuildMidtransData(loaded, statusResp, status, n2))
          ELSE UpdateStatus(loaded, status, n1) : n1 \in Times, n2 \in Times }

\* The callback of record p carries a body that names another status than
\* the gateway's status API reports.
BodyContradictsGateway(p) ==
    /\ p.kind = "callback"
    /\ p.statusResp # NoStatusResp
    /\ MapMidtransStatusToPaymentStatus(p.req.TransactionStatus)
         # MapMidtransStatusToPaymentStatus(p.statusResp.TransactionStatus)

\* C37: what a correctly signed callback stores and publishes is determined by
\* the row it loaded, the answer of the gateway's status API and the local
\* clock, whatever transaction_status, fraud_status, paid_at and expiry_time
\* its body carries: until UpdateStatus the row is the loaded one, afterwards
\* it is a row made from the gateway's answer, and the events published are
\* those of the gateway's status.  Two callbacks for one order that differ
\* only in these body fields therefore store the same payment and publish the
\* same events.
C37_OutcomeIndependentOfBody ==
    \A w \in Reconcilers :
        LET p == proc[w]
            row == payments[p.id]
            status == MapMidtransStatusToPaymentStatus(p.statusResp.TransactionStatus)
        IN  (p.kind = "callback" /\ p.id # NilUUID) =>
              /\ ~p.updated => Loaded(row) = p.payment
              /\ (p.updated /\ p.midtransData # "saved") =>
                    Loaded(row) \in
                        {Loaded(r) : r \in RowsFromGateway(p.payment, p.statusResp, FALSE)}
              /\ (p.updated /\ p.midtransData = "saved") =>
                    row \in RowsFromGateway(p.payment, p.statusResp, TRUE)
              /\ PastPublish(p) =>
                    p.pub = LifecycleEvents(p.payment, p.payment.Status, status)

C37_Witness ==
    \E w \in Reconcilers :
        /\ BodyContradictsGateway(proc[w])
        /\ proc[w].req.PaidAt # "" /\ proc[w].req.FraudStatus = "deny"
        /\ proc[w].pc = "respond" /\ proc[w].resp = 200
        /\ proc[w].midtransData = "saved"
        /\ proc[w].req.TransactionStatus = "settlement"
        /\ payments[proc[w].id].Status = PaymentStatusExpired
        /\ payments[proc[w].id].PaidAt = NoTime

-----------------------------------------------------------------------------
(* Cache fills racing with a reconciliation *)

\* No reconciliation and no read handler is in progress.
NoReconciliationOrRead == NoneInFlight /\ reader.pc = "idle"

\* The entries cached for the payment, by id and by order id, that differ
\* from the stored row's status.
StaleEntries(id) ==
    {k \in {PaymentKey(id), PaymentByOrderIDKey(payments[id].OrderID)} :
        cache[k] # CacheMiss /\ cache[k] # payments[id].Status}

\* C38: whenever no reconciliation and no read is in progress, an entry
\* cached for a payment under its id or its order id carries the status of
\* the stored row, whatever the interleaving of the cache fills of GetPayment,
\* GetPaymentByOrderID and CheckPaymentStatus with a reconciliation that
\* changes the status.
C38_CacheAgreesWhenQuiet ==
    NoReconciliationOrRead =>
        \A id \in PaymentIDs : payments[id].exists => StaleEntries(id) = {}

-----------------------------------------------------------------------------
(* The sweep's age test *)

\* The age in minutes of the record of payment id.
AgeOf(id) == sagaNow - pendingValidations[id].CreatedAt

\* The step is the sweep evicting the record of payment id.
SweepEvicts(id) ==
    /\ pendingValidations[id].exists
    /\ registrations[pendingValidations[id].gen].fate = "live"
    /\ registrations'[pendingValidations[id].gen].fate = "evicted"

\* The minute at which the last round of the sweep ran (0 when none has).
LastSweep == nextSweep - SweepIntervalMinutes

\* C39: the sweep evicts no record whose age is at most the timeout of 10
\* minutes; a record in the table was at most 10 minutes old when the last
\* round of the sweep ran, so that it is gone with the first firing of the
\* ticker at which its age exceeds the timeout, and no record is ever older
\* than 15 minutes.
C39_EvictedOnlyPastTimeoutAndByNextTick ==
    /\ [][\A id \in SagaPaymentIDs : SweepEvicts(id) => AgeOf(id) > ExpiryMinutes]_vars
    /\ [](\A id \in SagaPaymentIDs :
             pendingValidations[id].exists =>
                /\ LastSweep - pendingValidations[id].CreatedAt <= ExpiryMinutes
                /\ AgeOf(id) <= ExpiryMinutes + SweepIntervalMinutes)

\* C39 witness: the round of the sweep due at this minute has run and has
\* left in the table a record that is exactly 10 minutes old and has one of
\* its two replies.
C39_Witness ==
    /\ nextSweep - sagaNow = SweepIntervalMinutes
    /\ \E id \in SagaPaymentIDs :
          /\ pendingValidations[id].exists
          /\ AgeOf(id) = ExpiryMinutes
          /\ pendingValidations[id].ProductValidated
          /\ ~pendingValidations[id].UserValidated

-----------------------------------------------------------------------------
(* paid_at of a payment that is already SUCCESS *)

\* The handler w is reconciling a payment it loaded as SUCCESS with paid_at
\* set, and the gateway's answer carries no paid_at.
ReconcilesPaidWithoutGatewayTime(w) ==
    /\ proc[w].pc \in {"update", "midtrans"}
    /\ proc[w].payment.Status = PaymentStatusSuccess
    /\ proc[w].payment.PaidAt # NoTime
    /\ ~proc[w].statusResp.PaidAtSet

\* C40: a reconciliation of a payment that is already SUCCESS and has its
\* paid_at set, for which the gateway reports no paid-at time, leaves the
\* stored paid_at as it was.
C40_PaidAtKeptWithoutGatewayTime ==
    [][\A w \in Reconcilers :
          ReconcilesPaidWithoutGatewayTime(w)
             => payments'[proc[w].id].PaidAt = payments[proc[w].id].PaidAt]_vars

====
